---------------------------- MODULE Spec2Model ----------------------------
(***************************************************************************)
(* The heatshrink encoder and decoder state machines of                    *)
(* heatshrink/encoder.go and heatshrink/decoder.go, with the one-shot      *)
(* Compress / Decompress loops and a host that drives either codec with    *)
(* sink / poll / finish calls in any order.                                *)
(*                                                                         *)
(* A codec is a record holding the fields of the Go struct.  Every Go      *)
(* function is an operator from the record (and its arguments) to the      *)
(* record after the call.  uint16 / int16 / uint8 arithmetic keeps its     *)
(* width.  A Go run-time panic (index out of range) or log.Fatal ends the  *)
(* process: the record's fault field names it and nothing runs afterwards. *)
(***************************************************************************)
EXTENDS Integers, Sequences, FiniteSets, TLC

(***************************************************************************)
(* Bounds of the model.                                                    *)
(***************************************************************************)
\* largest window_sz2 explored (the smallest is HEATSHRINK_MIN_WINDOW_BITS)
MaxWindowBits == 4
\* the inputs of the encoder are up to this much longer than its window
MaxTail == 3
\* longest chunk a host offers to a sink in one call, unless it offers all it holds
MaxChunk == 2
\* longest byte stream the decoder host feeds
MaxStream == 3

(***************************************************************************)
(* Fixed-width arithmetic.                                                 *)
(***************************************************************************)
Pow2(n) == 2 ^ n

\* conversion to uint16 / wrap-around of uint16 arithmetic
U16(x) == x % 65536

\* conversion to uint8
U8(x) == x % 256

\* conversion to int16 / wrap-around of int16 arithmetic
I16(x) == LET y == x % 65536 IN IF y >= 32768 THEN y - 65536 ELSE y

RECURSIVE BitAnd(_, _)
\* a & b on non-negative integers
BitAnd(a, b) ==
    IF a = 0 \/ b = 0 THEN 0
    ELSE (IF a % 2 = 1 /\ b % 2 = 1 THEN 1 ELSE 0) + 2 * BitAnd(a \div 2, b \div 2)

RECURSIVE BitOr(_, _)
\* a | b on non-negative integers
BitOr(a, b) ==
    IF a = 0 THEN b
    ELSE IF b = 0 THEN a
    ELSE (IF a % 2 = 1 \/ b % 2 = 1 THEN 1 ELSE 0) + 2 * BitOr(a \div 2, b \div 2)

Min(a, b) == IF a < b THEN a ELSE b

\* s[from:] of a Go slice held as a sequence (from counts from 0)
SliceFrom(s, from) == SubSeq(s, from + 1, Len(s))

\* s[:to]
SliceTo(s, to) == SubSeq(s, 1, to)

IsPrefix(s, t) == Len(s) <= Len(t) /\ SubSeq(t, 1, Len(s)) = s

(***************************************************************************)
(* Constants of encoder.go.                                                *)
(***************************************************************************)
HEATSHRINK_MIN_WINDOW_BITS == 4
HEATSHRINK_MAX_WINDOW_BITS == 15
HEATSHRINK_MIN_LOOKAHEAD_BITS == 3

HSER_SINK_OK == 0
HSER_SINK_ERROR_MISUSE == -2
HSER_POLL_EMPTY == 0
HSER_POLL_MORE == 1
HSER_POLL_ERROR_MISUSE == -2
HSER_FINISH_DONE == 0
HSER_FINISH_MORE == 1

HSES_NOT_FULL == 0
HSES_FILLED == 1
HSES_SEARCH == 2
HSES_YIELD_TAG_BIT == 3
HSES_YIELD_LITERAL == 4
HSES_YIELD_BR_INDEX == 5
HSES_YIELD_BR_LENGTH == 6
HSES_SAVE_BACKLOG == 7
HSES_FLUSH_BITS == 8
HSES_DONE == 9

MATCH_NOT_FOUND == 65535
HEATSHRINK_LITERAL_MARKER == 1
HEATSHRINK_BACKREF_MARKER == 0

\* the process is alive
NoFault == "none"
\* a Go run-time panic: index or slice bounds out of range
FaultIndex == "panic: index out of range"
\* log.Fatal: the process exits
FaultFatal == "log.Fatal"

(***************************************************************************)
(* The encoder.                                                            *)
(***************************************************************************)
get_input_buffer_size(hse) == U16(Pow2(hse.window_sz2))

get_input_offset(hse) == get_input_buffer_size(hse)

get_lookahead_size(hse) == U16(Pow2(hse.lookahead_sz2))

is_finishing(hse) == hse.finishing

\* len(hse.buffer) = len(hse.search_index) = buf_sz
BufLen(hse) == 2 * Pow2(hse.window_sz2)

\* the codec died: no call returns any more
Crash(hse, why) == [hse EXCEPT !.fault = why]

\* the fields encoder_reset assigns
encoder_reset(hse) ==
    [hse EXCEPT !.input_size = 0, !.state = HSES_NOT_FULL, !.match_scan_index = 0,
                !.finishing = FALSE, !.bit_index = 128, !.current_byte = 0,
                !.match_length = 0, !.outgoing_bits = 0, !.outgoing_bits_count = 0,
                !.outbuf = << >>]

\* whether encoder_alloc (and decoder_alloc) accepts the parameters
ValidParams(window_sz2, lookahead_sz2) ==
    ~ (\/ window_sz2 < HEATSHRINK_MIN_WINDOW_BITS
       \/ window_sz2 > HEATSHRINK_MAX_WINDOW_BITS
       \/ lookahead_sz2 < HEATSHRINK_MIN_LOOKAHEAD_BITS
       \/ lookahead_sz2 >= window_sz2)

\* a fresh encoder: zeroed struct, parameters, reset, zeroed buffer and index
encoder_alloc(window_sz2, lookahead_sz2) ==
    encoder_reset(
        [input_size |-> 0, match_scan_index |-> 0, match_length |-> 0, match_pos |-> 0,
         outgoing_bits |-> 0, outgoing_bits_count |-> 0, finishing |-> FALSE,
         state |-> 0, current_byte |-> 0, bit_index |-> 0,
         window_sz2 |-> window_sz2, lookahead_sz2 |-> lookahead_sz2,
         search_index |-> [i \in 0 .. (2 * Pow2(window_sz2) - 1) |-> 0],
         buffer |-> [i \in 0 .. (2 * Pow2(window_sz2) - 1) |-> 0],
         outbuf |-> << >>,
         fault |-> NoFault])

RECURSIVE push_bits_loop_dirty(_, _, _)
\* the bit loop of push_bits without hse.current_byte = 0x00 after a byte is written
push_bits_loop_dirty(hse, i, bits) ==
    IF i < 0 THEN hse
    ELSE LET cb == IF BitAnd(bits, Pow2(i)) # 0
                   THEN BitOr(hse.current_byte, hse.bit_index)
                   ELSE hse.current_byte
             bi == hse.bit_index \div 2
         IN  IF bi = 0
             THEN push_bits_loop_dirty([hse EXCEPT !.bit_index = 128,
                                                   !.outbuf = Append(hse.outbuf, cb),
                                                   !.current_byte = cb], i - 1, bits)
             ELSE push_bits_loop_dirty([hse EXCEPT !.bit_index = bi, !.current_byte = cb],
                                       i - 1, bits)

RECURSIVE push_bits_loop(_, _, _)
\* the bit loop of push_bits, from bit i down to bit 0
push_bits_loop(hse, i, bits) ==
    IF i < 0 THEN hse
    ELSE LET cb == IF BitAnd(bits, Pow2(i)) # 0
                   THEN BitOr(hse.current_byte, hse.bit_index)
                   ELSE hse.current_byte
             bi == hse.bit_index \div 2
         IN  IF bi = 0
             THEN push_bits_loop([hse EXCEPT !.bit_index = 128,
                                             !.outbuf = Append(hse.outbuf, cb),
                                             !.current_byte = 0], i - 1, bits)
             ELSE push_bits_loop([hse EXCEPT !.bit_index = bi, !.current_byte = cb],
                                 i - 1, bits)

push_bits(hse, count, bits) ==
    IF count > 8 THEN Crash(hse, FaultFatal)
    ELSE IF count = 8 /\ hse.bit_index = 128
         THEN [hse EXCEPT !.outbuf = Append(hse.outbuf, bits)]
         ELSE push_bits_loop(hse, count - 1, bits)

add_tag_bit(hse, tag) == push_bits(hse, 1, tag)

\* push_outgoing_bits: the encoder after the call and the count returned
push_outgoing_bits(hse) ==
    LET wide  == hse.outgoing_bits_count > 8
        count == IF wide THEN 8 ELSE hse.outgoing_bits_count
        bits  == IF wide
                 THEN U8(hse.outgoing_bits \div Pow2(hse.outgoing_bits_count - 8))
                 ELSE U8(hse.outgoing_bits)
    IN  IF count > 0
        THEN [hse |-> LET p == push_bits(hse, count, bits)
                      IN  [p EXCEPT !.outgoing_bits_count = hse.outgoing_bits_count - count],
              count |-> count]
        ELSE [hse |-> hse, count |-> count]

\* push_literal_byte reading the byte at the scan position, not the one before it
push_literal_byte_next(hse) ==
    LET input_offset == U16(get_input_offset(hse) + hse.match_scan_index)
    IN  IF input_offset >= BufLen(hse) THEN Crash(hse, FaultIndex)
        ELSE push_bits(hse, 8, hse.buffer[input_offset])

push_literal_byte(hse) ==
    LET processed_offset == U16(hse.match_scan_index - 1)
        input_offset == U16(get_input_offset(hse) + processed_offset)
    IN  IF input_offset >= BufLen(hse) THEN Crash(hse, FaultIndex)
        ELSE push_bits(hse, 8, hse.buffer[input_offset])


\* the body of the loop of do_indexing, for one i
do_indexing_step(data, st) ==
    IF st.i \notin DOMAIN data THEN [st EXCEPT !.panic = TRUE]
    ELSE LET v  == data[st.i]
             lv == st.last[v]
         IN  [st EXCEPT !.index[st.i] = lv, !.last[v] = I16(st.i), !.i = st.i + 1]

\* the test of the loop of do_indexing: panicked, or not i < int(end)
do_indexing_done(end, st) == st.panic \/ ~ (st.i < end)

RECURSIVE do_indexing_run(_, _, _, _)
\* the loop of do_indexing, for at most 2^k iterations
do_indexing_run(data, end, st, k) ==
    IF do_indexing_done(end, st) THEN st
    ELSE IF k = 0 THEN do_indexing_step(data, st)
    ELSE do_indexing_run(data, end, do_indexing_run(data, end, st, k - 1), k - 1)

RECURSIVE do_indexing_from(_, _, _, _)
\* the loop of do_indexing, until it ends
do_indexing_from(data, end, st, k) ==
    LET r == do_indexing_run(data, end, st, k)
    IN  IF do_indexing_done(end, r) THEN r ELSE do_indexing_from(data, end, r, k + 1)

do_indexing(hse) ==
    LET last == [v \in 0 .. 255 |-> -1]
        input_offset == get_input_offset(hse)
        end == U16(input_offset + hse.input_size)
        r == do_indexing_from(hse.buffer, end,
                              [i |-> 0, index |-> hse.search_index, last |-> last,
                               panic |-> FALSE], 0)
    IN  IF r.panic THEN Crash([hse EXCEPT !.search_index = r.index], FaultIndex)
        ELSE [hse EXCEPT !.search_index = r.index]

RECURSIVE match_extend_short(_, _, _, _, _)
\* the inner loop stopping one byte short of maxlen
match_extend_short(hse, pos, end, maxlen, len) ==
    IF ~ (len < maxlen - 1) THEN len
    ELSE IF pos + len >= BufLen(hse) \/ end + len >= BufLen(hse) THEN -1
    ELSE IF hse.buffer[pos + len] # hse.buffer[end + len] THEN len
    ELSE match_extend_short(hse, pos, end, maxlen, len + 1)

RECURSIVE match_extend(_, _, _, _, _)
\* the inner loop of find_longest_match:
\*   for len = 1; len < maxlen; len++ { if pospoint[len] != needlepoint[len] { break } }
\* the value of len after it, or -1 when an index is out of range
match_extend(hse, pos, end, maxlen, len) ==
    IF ~ (len < maxlen) THEN len
    ELSE IF pos + len >= BufLen(hse) \/ end + len >= BufLen(hse) THEN -1
    ELSE IF hse.buffer[pos + len] # hse.buffer[end + len] THEN len
    ELSE match_extend(hse, pos, end, maxlen, len + 1)

\* the body of the outer loop of find_longest_match, for one pos
find_longest_match_step(hse, end, maxlen, st) ==
    LET pos == st.pos
        next == hse.search_index[pos]
    IN  IF pos < 0 \/ pos > BufLen(hse) THEN [st EXCEPT !.panic = TRUE]
        ELSE IF pos + st.match_maxlen >= BufLen(hse) \/ end + st.match_maxlen >= BufLen(hse)
             THEN [st EXCEPT !.panic = TRUE]
        ELSE IF hse.buffer[pos + st.match_maxlen] # hse.buffer[end + st.match_maxlen]
             THEN [st EXCEPT !.pos = next]
        ELSE LET len == match_extend(hse, pos, end, maxlen, 1)
             IN  IF len = -1 THEN [st EXCEPT !.panic = TRUE]
                 ELSE IF len > st.match_maxlen
                      THEN IF len = maxlen
                           THEN [st EXCEPT !.match_maxlen = len, !.match_index = U16(pos),
                                           !.broke = TRUE]
                           ELSE [st EXCEPT !.match_maxlen = len, !.match_index = U16(pos),
                                           !.pos = next]
                      ELSE [st EXCEPT !.pos = next]

\* the test of the outer loop of find_longest_match, int16(pos)-int16(start) >= 0,
\* and its break
find_longest_match_done(start, st) ==
    st.panic \/ st.broke \/ ~ (I16(st.pos - I16(start)) >= 0)

RECURSIVE find_longest_match_run(_, _, _, _, _, _)
\* the outer loop of find_longest_match, for at most 2^k iterations
find_longest_match_run(hse, start, end, maxlen, st, k) ==
    IF find_longest_match_done(start, st) THEN st
    ELSE IF k = 0 THEN find_longest_match_step(hse, end, maxlen, st)
    ELSE find_longest_match_run(hse, start, end, maxlen,
                                find_longest_match_run(hse, start, end, maxlen, st, k - 1),
                                k - 1)

RECURSIVE find_longest_match_from(_, _, _, _, _, _)
\* the outer loop of find_longest_match, until it ends
find_longest_match_from(hse, start, end, maxlen, st, k) ==
    LET r == find_longest_match_run(hse, start, end, maxlen, st, k)
    IN  IF find_longest_match_done(start, r) THEN r
        ELSE find_longest_match_from(hse, start, end, maxlen, r, k + 1)

find_longest_match_loop(hse, start, end, maxlen) ==
    find_longest_match_from(hse, start, end, maxlen,
                            [pos |-> hse.search_index[end], match_maxlen |-> 0,
                             match_index |-> MATCH_NOT_FOUND, broke |-> FALSE,
                             panic |-> FALSE], 0)

\* break_even_point / 8
break_even(hse) == U16(1 + hse.window_sz2 + hse.lookahead_sz2) \div 8

\* a match accepted already at the break-even point
accept_match_at_break_even(hse, match_maxlen) == match_maxlen >= break_even(hse)

\* the last statement of find_longest_match: is the best match worth a back-reference
accept_match(hse, match_maxlen) == match_maxlen > break_even(hse)

\* find_longest_match: [panic, match_pos, match_length]
find_longest_match(hse, start, end, maxlen) ==
    IF end >= BufLen(hse)
    THEN [panic |-> TRUE, match_pos |-> MATCH_NOT_FOUND, match_length |-> 0]
    ELSE LET r == find_longest_match_loop(hse, start, end, maxlen)
         IN  IF r.panic
             THEN [panic |-> TRUE, match_pos |-> MATCH_NOT_FOUND, match_length |-> 0]
             ELSE IF accept_match(hse, r.match_maxlen)
                  THEN [panic |-> FALSE, match_pos |-> U16(end - r.match_index),
                        match_length |-> r.match_maxlen]
                  ELSE [panic |-> FALSE, match_pos |-> MATCH_NOT_FOUND, match_length |-> 0]

\* the scan-exhaustion test of est_step_search: msi > hse.input_size-bias, in uint16
scan_exhausted(hse) ==
    LET bias == IF is_finishing(hse) THEN 1 ELSE get_lookahead_size(hse)
    IN  hse.match_scan_index > U16(hse.input_size - bias)

\* est_step_search, the new state stored by encoder_poll included
est_step_search(hse) ==
    LET window_length == get_input_buffer_size(hse)
        lookahead_sz == get_lookahead_size(hse)
        msi == hse.match_scan_index
    IN  IF scan_exhausted(hse)
        THEN [hse EXCEPT !.state = IF is_finishing(hse) THEN HSES_FLUSH_BITS
                                   ELSE HSES_SAVE_BACKLOG]
        ELSE LET input_offset == get_input_offset(hse)
                 end == U16(input_offset + msi)
                 start == U16(end - window_length)
                 max_possible == IF U16(hse.input_size - msi) < lookahead_sz
                                 THEN U16(hse.input_size - msi)
                                 ELSE lookahead_sz
                 m == find_longest_match(hse, start, end, max_possible)
             IN  IF m.panic THEN Crash(hse, FaultIndex)
                 ELSE IF m.match_pos = MATCH_NOT_FOUND
                      THEN [hse EXCEPT !.match_scan_index = U16(msi + 1),
                                       !.match_length = 0,
                                       !.state = HSES_YIELD_TAG_BIT]
                      ELSE IF m.match_pos > U16(Pow2(hse.window_sz2))
                           THEN Crash([hse EXCEPT !.match_pos = m.match_pos,
                                                  !.match_length = m.match_length],
                                      FaultFatal)
                           ELSE [hse EXCEPT !.match_pos = m.match_pos,
                                            !.match_length = m.match_length,
                                            !.state = HSES_YIELD_TAG_BIT]

\* a step that ran to its end stores its state; one that died stores nothing
Goto(hse, st) == IF hse.fault # NoFault THEN hse ELSE [hse EXCEPT !.state = st]

est_yield_tag_bit(hse) ==
    IF hse.match_length = 0
    THEN Goto(add_tag_bit(hse, HEATSHRINK_LITERAL_MARKER), HSES_YIELD_LITERAL)
    ELSE LET t == add_tag_bit(hse, HEATSHRINK_BACKREF_MARKER)
         IN  Goto([t EXCEPT !.outgoing_bits = U16(hse.match_pos - 1),
                            !.outgoing_bits_count = hse.window_sz2],
                  HSES_YIELD_BR_INDEX)

est_yield_literal(hse) == Goto(push_literal_byte(hse), HSES_SEARCH)

est_yield_br_index(hse) ==
    LET p == push_outgoing_bits(hse)
    IN  IF p.count > 0 THEN Goto(p.hse, HSES_YIELD_BR_INDEX)
        ELSE Goto([p.hse EXCEPT !.outgoing_bits = U16(hse.match_length - 1),
                                !.outgoing_bits_count = hse.lookahead_sz2],
                  HSES_YIELD_BR_LENGTH)

est_yield_br_length(hse) ==
    LET p == push_outgoing_bits(hse)
    IN  IF p.count > 0 THEN Goto(p.hse, HSES_YIELD_BR_LENGTH)
        ELSE Goto([p.hse EXCEPT !.match_scan_index =
                                    U16(hse.match_scan_index + hse.match_length),
                                !.match_length = 0],
                  HSES_SEARCH)

\* save_backlog copying from the start of the input half, as if nothing of the
\* window were still needed
save_backlog_from_input(hse) ==
    LET input_buf_sz == get_input_buffer_size(hse)
        n == BufLen(hse) - input_buf_sz
    IN  [hse EXCEPT !.buffer = [i \in 0 .. (BufLen(hse) - 1) |->
                                   IF i < n THEN hse.buffer[input_buf_sz + i]
                                   ELSE hse.buffer[i]],
                    !.match_scan_index = 0,
                    !.input_size = U16(hse.input_size - hse.match_scan_index)]

\* copy(hse.buffer, hse.buffer[input_buf_sz-rem:]) and the two assignments after it
save_backlog(hse) ==
    LET input_buf_sz == get_input_buffer_size(hse)
        msi == hse.match_scan_index
        rem == U16(input_buf_sz - msi)
        from == U16(input_buf_sz - rem)
        n == BufLen(hse) - from
    IN  IF from > BufLen(hse) THEN Crash(hse, FaultIndex)
        ELSE [hse EXCEPT !.buffer = [i \in 0 .. (BufLen(hse) - 1) |->
                                        IF i < n THEN hse.buffer[from + i]
                                        ELSE hse.buffer[i]],
                         !.match_scan_index = 0,
                         !.input_size = U16(hse.input_size - U16(input_buf_sz - rem))]

est_save_backlog(hse) == Goto(save_backlog(hse), HSES_NOT_FULL)

\* the flush writing the partial byte over the last output byte
est_flush_bit_buffer_in_place(hse) ==
    IF hse.bit_index = 128 THEN Goto(hse, HSES_DONE)
    ELSE Goto([hse EXCEPT !.outbuf = SliceTo(hse.outbuf, Len(hse.outbuf) - 1)
                                        \o <<hse.current_byte>>], HSES_DONE)

est_flush_bit_buffer(hse) ==
    IF hse.bit_index = 128 THEN Goto(hse, HSES_DONE)
    ELSE Goto([hse EXCEPT !.outbuf = Append(hse.outbuf, hse.current_byte)], HSES_DONE)


\* encoder_sink accepting bytes in every state before finish()
encoder_sink_any_state(hse, in_buf) ==
    IF is_finishing(hse)
    THEN [hse |-> hse, result |-> HSER_SINK_ERROR_MISUSE, consumed |-> 0]
    ELSE LET write_offset == U16(get_input_offset(hse) + hse.input_size)
             rem == U16(get_input_buffer_size(hse) - hse.input_size)
             cp_sz == IF Len(in_buf) < rem THEN U16(Len(in_buf)) ELSE rem
             copied == [hse EXCEPT
                          !.buffer = [i \in 0 .. (BufLen(hse) - 1) |->
                                         IF i >= write_offset /\ i < write_offset + cp_sz
                                         THEN in_buf[i - write_offset + 1]
                                         ELSE hse.buffer[i]],
                          !.input_size = U16(hse.input_size + cp_sz)]
         IN  [hse |-> IF cp_sz = rem THEN [copied EXCEPT !.state = HSES_FILLED]
                      ELSE copied,
              result |-> HSER_SINK_OK, consumed |-> cp_sz]

\* encoder_sink copying every chunk to the start of the input region
encoder_sink_from_start(hse, in_buf) ==
    IF is_finishing(hse) \/ hse.state # HSES_NOT_FULL
    THEN [hse |-> hse, result |-> HSER_SINK_ERROR_MISUSE, consumed |-> 0]
    ELSE LET write_offset == get_input_offset(hse)
             rem == U16(get_input_buffer_size(hse) - hse.input_size)
             cp_sz == IF Len(in_buf) < rem THEN U16(Len(in_buf)) ELSE rem
             copied == [hse EXCEPT
                          !.buffer = [i \in 0 .. (BufLen(hse) - 1) |->
                                         IF i >= write_offset /\ i < write_offset + cp_sz
                                         THEN in_buf[i - write_offset + 1]
                                         ELSE hse.buffer[i]],
                          !.input_size = U16(hse.input_size + cp_sz)]
         IN  [hse |-> IF cp_sz = rem THEN [copied EXCEPT !.state = HSES_FILLED]
                      ELSE copied,
              result |-> HSER_SINK_OK, consumed |-> cp_sz]

\* encoder_sink: the encoder after the call, the status and the count returned
encoder_sink(hse, in_buf) ==
    IF is_finishing(hse)
    THEN [hse |-> hse, result |-> HSER_SINK_ERROR_MISUSE, consumed |-> 0]
    ELSE IF hse.state # HSES_NOT_FULL
    THEN [hse |-> hse, result |-> HSER_SINK_ERROR_MISUSE, consumed |-> 0]
    ELSE LET write_offset == U16(get_input_offset(hse) + hse.input_size)
             ibs == get_input_buffer_size(hse)
             rem == U16(ibs - hse.input_size)
             cp_sz == IF Len(in_buf) < rem THEN U16(Len(in_buf)) ELSE rem
         IN  IF write_offset > BufLen(hse) \/ cp_sz > Len(in_buf)
             THEN [hse |-> Crash(hse, FaultIndex), result |-> HSER_SINK_OK, consumed |-> 0]
             ELSE LET n == Min(BufLen(hse) - write_offset, cp_sz)
                      copied == [hse EXCEPT
                                   !.buffer = [i \in 0 .. (BufLen(hse) - 1) |->
                                                  IF i >= write_offset /\ i < write_offset + n
                                                  THEN in_buf[i - write_offset + 1]
                                                  ELSE hse.buffer[i]],
                                   !.input_size = U16(hse.input_size + cp_sz)]
                  IN  [hse |-> IF cp_sz = rem THEN [copied EXCEPT !.state = HSES_FILLED]
                               ELSE copied,
                       result |-> HSER_SINK_OK, consumed |-> cp_sz]

\* the changes of hse.state that encoder_sink, encoder_poll and encoder_finish assign
EncoderEdges ==
    {<<HSES_NOT_FULL, HSES_FILLED>>, <<HSES_FILLED, HSES_SEARCH>>,
     <<HSES_SEARCH, HSES_YIELD_TAG_BIT>>, <<HSES_SEARCH, HSES_SAVE_BACKLOG>>,
     <<HSES_SEARCH, HSES_FLUSH_BITS>>,
     <<HSES_YIELD_TAG_BIT, HSES_YIELD_LITERAL>>,
     <<HSES_YIELD_TAG_BIT, HSES_YIELD_BR_INDEX>>,
     <<HSES_YIELD_LITERAL, HSES_SEARCH>>,
     <<HSES_YIELD_BR_INDEX, HSES_YIELD_BR_LENGTH>>,
     <<HSES_YIELD_BR_LENGTH, HSES_SEARCH>>,
     <<HSES_SAVE_BACKLOG, HSES_NOT_FULL>>, <<HSES_FLUSH_BITS, HSES_DONE>>}

\* one iteration of the loop of encoder_poll: the encoder after it, whether the
\* call returned, and the status it returned
encoder_poll_step(hse) ==
    LET go(h) == [hse |-> h, returned |-> FALSE, result |-> HSER_POLL_MORE]
        st == hse.state
    IN  IF st = HSES_NOT_FULL THEN [hse |-> hse, returned |-> TRUE, result |-> HSER_POLL_EMPTY]
        ELSE IF st = HSES_FILLED THEN go(Goto(do_indexing(hse), HSES_SEARCH))
        ELSE IF st = HSES_SEARCH THEN go(est_step_search(hse))
        ELSE IF st = HSES_YIELD_TAG_BIT THEN go(est_yield_tag_bit(hse))
        ELSE IF st = HSES_YIELD_LITERAL THEN go(est_yield_literal(hse))
        ELSE IF st = HSES_YIELD_BR_INDEX THEN go(est_yield_br_index(hse))
        ELSE IF st = HSES_YIELD_BR_LENGTH THEN go(est_yield_br_length(hse))
        ELSE IF st = HSES_SAVE_BACKLOG THEN go(est_save_backlog(hse))
        ELSE IF st = HSES_FLUSH_BITS THEN go(est_flush_bit_buffer(hse))
        ELSE IF st = HSES_DONE THEN [hse |-> hse, returned |-> TRUE, result |-> HSER_POLL_EMPTY]
        ELSE [hse |-> hse, returned |-> TRUE, result |-> HSER_POLL_ERROR_MISUSE]

RECURSIVE encoder_poll_run(_, _)
\* the loop of encoder_poll, for at most 2^k iterations
encoder_poll_run(st, k) ==
    IF st.returned \/ st.hse.fault # NoFault THEN st
    ELSE IF k = 0 THEN encoder_poll_step(st.hse)
    ELSE encoder_poll_run(encoder_poll_run(st, k - 1), k - 1)

RECURSIVE encoder_poll_from(_, _)
\* the loop of encoder_poll, until it ends
encoder_poll_from(st, k) ==
    LET r == encoder_poll_run(st, k)
    IN  IF r.returned \/ r.hse.fault # NoFault THEN r ELSE encoder_poll_from(r, k + 1)

\* encoder_poll, run until it returns or the process dies
encoder_poll(hse) ==
    encoder_poll_from([hse |-> hse, returned |-> FALSE, result |-> HSER_POLL_MORE], 0)

\* the bits push_bits has written so far, first to last: the bytes of outbuf from
\* the most significant bit down, then the bits of current_byte above bit_index
OutBits(hse) ==
    LET full == [k \in 1 .. (8 * Len(hse.outbuf)) |->
                    (hse.outbuf[((k - 1) \div 8) + 1] \div Pow2(7 - ((k - 1) % 8))) % 2]
        n == CHOOSE k \in 0 .. 7 : Pow2(7 - k) = hse.bit_index
    IN  full \o [k \in 1 .. n |-> (hse.current_byte \div Pow2(8 - k)) % 2]

RECURSIVE yield_symbol(_)
\* the steps of encoder_poll from YIELD_TAG_BIT until the symbol is written and
\* the encoder is back in SEARCH
yield_symbol(hse) ==
    IF hse.fault # NoFault \/ hse.state \notin {HSES_YIELD_TAG_BIT, HSES_YIELD_LITERAL,
                                               HSES_YIELD_BR_INDEX, HSES_YIELD_BR_LENGTH}
    THEN hse
    ELSE yield_symbol(encoder_poll_step(hse).hse)

\* encoder_finish moving to FILLED from whatever state the encoder is in
encoder_finish_any_state(hse) ==
    LET f == [hse EXCEPT !.finishing = TRUE, !.state = HSES_FILLED]
    IN  [hse |-> f,
         result |-> IF hse.state = HSES_DONE THEN HSER_FINISH_DONE ELSE HSER_FINISH_MORE]

\* encoder_finish: the encoder after the call and the status returned
encoder_finish(hse) ==
    LET f == [hse EXCEPT !.finishing = TRUE,
                         !.state = IF hse.state = HSES_NOT_FULL THEN HSES_FILLED
                                   ELSE hse.state]
    IN  [hse |-> f,
         result |-> IF f.state = HSES_DONE THEN HSER_FINISH_DONE ELSE HSER_FINISH_MORE]

RECURSIVE Compress_loop(_, _, _)
\* the loop of Compress: the encoder at the end, and whether Compress returned
Compress_loop(hse, data, inlen) ==
    LET k == encoder_sink(hse, SliceFrom(data, inlen))
        n == inlen + k.consumed
        p == encoder_poll(k.hse)
        f == encoder_finish(p.hse)
    IN  IF k.hse.fault # NoFault THEN [hse |-> k.hse, returned |-> FALSE]
        ELSE IF p.hse.fault # NoFault THEN [hse |-> p.hse, returned |-> FALSE]
        ELSE IF n = Len(data)
             THEN IF f.result = HSER_FINISH_DONE THEN [hse |-> f.hse, returned |-> TRUE]
                  ELSE Compress_loop(f.hse, data, n)
             ELSE Compress_loop(p.hse, data, n)

\* Compress(window, lookahead, data): the bytes returned are hse.outbuf
Compress(window, lookahead, data) ==
    Compress_loop(encoder_alloc(window, lookahead), data, 0)


(***************************************************************************)
(* Constants of decoder.go.                                                *)
(***************************************************************************)
HSDS_TAG_BIT == 0
HSDS_YIELD_LITERAL == 1
HSDS_BACKREF_INDEX_MSB == 2
HSDS_BACKREF_INDEX_LSB == 3
HSDS_BACKREF_COUNT_MSB == 4
HSDS_BACKREF_COUNT_LSB == 5
HSDS_YIELD_BACKREF == 6

HSDR_SINK_OK == 0
HSDR_SINK_FULL == 1
HSDR_POLL_EMPTY == 0
HSDR_POLL_MORE == 1
HSDR_POLL_ERROR_UNKNOWN == -2
HSDR_FINISH_DONE == 0
HSDR_FINISH_MORE == 1

NO_BITS == 65535

\* len(hsd.inbuf)
INBUF_SIZE == 65535

(***************************************************************************)
(* The decoder.  inbuf holds the live bytes inbuf[0 .. input_size) of the  *)
(* Go array: the bytes beyond input_size are never read before             *)
(* decoder_sink overwrites them.                                           *)
(***************************************************************************)
decoder_reset(hsd) ==
    [hsd EXCEPT !.state = HSDS_TAG_BIT, !.input_size = 0, !.input_index = 0,
                !.bit_index = 0, !.current_byte = 0, !.output_count = 0,
                !.output_index = 0, !.head_index = 0, !.outbuf = << >>]

decoder_alloc(window_sz2, lookahead_sz2) ==
    decoder_reset(
        [input_size |-> 0, input_index |-> 0, output_count |-> 0, output_index |-> 0,
         head_index |-> 0, state |-> 0, current_byte |-> 0, bit_index |-> 0,
         window_sz2 |-> window_sz2, lookahead_sz2 |-> lookahead_sz2,
         decbuf |-> [i \in 0 .. (Pow2(window_sz2) - 1) |-> 0],
         inbuf |-> << >>,
         outbuf |-> << >>,
         fault |-> NoFault])

\* decoder_sink refusing a chunk that does not fit whole
decoder_sink_whole(hsd, data) ==
    LET rem == U16(U16(INBUF_SIZE) - hsd.input_size)
    IN  IF rem = 0 \/ Len(data) > rem
        THEN [hsd |-> hsd, result |-> HSDR_SINK_FULL, consumed |-> 0]
        ELSE [hsd |-> [hsd EXCEPT !.inbuf = SliceTo(hsd.inbuf, hsd.input_size) \o data,
                                  !.input_size = U16(hsd.input_size + Len(data))],
              result |-> HSDR_SINK_OK, consumed |-> Len(data)]

\* decoder_sink: the decoder after the call, the status and the count returned
decoder_sink(hsd, data) ==
    LET rem == U16(U16(INBUF_SIZE) - hsd.input_size)
    IN  IF rem = 0 THEN [hsd |-> hsd, result |-> HSDR_SINK_FULL, consumed |-> 0]
        ELSE LET size == IF Len(data) < rem THEN U16(Len(data)) ELSE rem
             IN  [hsd |-> [hsd EXCEPT !.inbuf = SliceTo(hsd.inbuf, hsd.input_size)
                                                  \o SliceTo(data, size),
                                      !.input_size = U16(hsd.input_size + size)],
                  result |-> HSDR_SINK_OK, consumed |-> size]

\* 1 << n in uint8
Shl8(n) == IF n >= 8 THEN 0 ELSE U8(Pow2(n))

RECURSIVE get_bits_loop(_, _, _, _)
\* the loop of get_bits: for i := uint8(0); i < count; i++
get_bits_loop(hsd, count, i, accumulator) ==
    IF ~ (i < count) THEN [hsd |-> hsd, bits |-> accumulator]
    ELSE IF hsd.bit_index = 0 /\ hsd.input_size = 0 THEN [hsd |-> hsd, bits |-> NO_BITS]
    ELSE IF hsd.bit_index = 0 /\ hsd.input_index >= Len(hsd.inbuf)
         THEN [hsd |-> Crash(hsd, FaultIndex), bits |-> NO_BITS]
    ELSE LET pulled == IF hsd.bit_index = 0
                       THEN LET ii == U16(hsd.input_index + 1)
                                exhausted == ii = hsd.input_size
                            IN  [hsd EXCEPT !.current_byte = hsd.inbuf[hsd.input_index + 1],
                                            !.input_index = IF exhausted THEN 0 ELSE ii,
                                            !.input_size = IF exhausted THEN 0
                                                           ELSE hsd.input_size,
                                            !.inbuf = IF exhausted THEN << >> ELSE hsd.inbuf,
                                            !.bit_index = 128]
                       ELSE hsd
             shifted == U16(accumulator * 2)
             acc == IF BitAnd(pulled.current_byte, pulled.bit_index) > 0
                    THEN BitOr(shifted, 1) ELSE shifted
         IN  get_bits_loop([pulled EXCEPT !.bit_index = pulled.bit_index \div 2],
                           count, U8(i + 1), acc)

\* get_bits suspending only when no bit at all is left
cannot_get_any(hsd, count) == hsd.input_size = 0 /\ hsd.bit_index = 0

\* get_bits suspending also when exactly count bits are left
cannot_get_exact(hsd, count) == hsd.input_size = 0 /\ hsd.bit_index < Shl8(count)

\* the suspension test of get_bits, made before any bit is read
cannot_get(hsd, count) == hsd.input_size = 0 /\ hsd.bit_index < Shl8(U8(count - 1))

\* get_bits: the decoder after the call and the value returned
get_bits(hsd, count) ==
    IF count > 15 THEN [hsd |-> hsd, bits |-> NO_BITS]
    ELSE IF cannot_get(hsd, count) THEN [hsd |-> hsd, bits |-> NO_BITS]
    ELSE get_bits_loop(hsd, count, 0, 0)

push_byte(hsd, byte) == [hsd EXCEPT !.outbuf = Append(hsd.outbuf, byte)]

\* uint16(1<<hsd.window_sz2) - 1
window_mask(hsd) == U16(U16(Pow2(hsd.window_sz2)) - 1)

\* dst_tag_bit taking the answer of get_bits for a tag bit even when it is NO_BITS
dst_tag_bit_unchecked(hsd) ==
    LET g == get_bits(hsd, 1)
    IN  IF g.bits > 0 THEN Goto(g.hsd, HSDS_YIELD_LITERAL)
        ELSE IF hsd.window_sz2 > 8 THEN Goto(g.hsd, HSDS_BACKREF_INDEX_MSB)
        ELSE Goto([g.hsd EXCEPT !.output_index = 0], HSDS_BACKREF_INDEX_LSB)

dst_tag_bit(hsd) ==
    LET g == get_bits(hsd, 1)
    IN  IF g.bits = NO_BITS THEN Goto(g.hsd, HSDS_TAG_BIT)
        ELSE IF g.bits > 0 THEN Goto(g.hsd, HSDS_YIELD_LITERAL)
        ELSE IF hsd.window_sz2 > 8 THEN Goto(g.hsd, HSDS_BACKREF_INDEX_MSB)
        ELSE Goto([g.hsd EXCEPT !.output_index = 0], HSDS_BACKREF_INDEX_LSB)

dst_yield_literal(hsd) ==
    LET g == get_bits(hsd, 8)
    IN  IF g.bits = NO_BITS THEN Goto(g.hsd, HSDS_YIELD_LITERAL)
        ELSE LET mask == window_mask(hsd)
                 c == U8(BitAnd(g.bits, 255))
                 at == BitAnd(g.hsd.head_index, mask)
             IN  Goto(push_byte([g.hsd EXCEPT !.decbuf = [@ EXCEPT ![at] = c],
                                              !.head_index = U16(g.hsd.head_index + 1)], c),
                      HSDS_TAG_BIT)

dst_backref_index_msb(hsd) ==
    LET bit_ct == hsd.window_sz2
    IN  IF bit_ct <= 8 THEN Crash(hsd, FaultFatal)
        ELSE LET g == get_bits(hsd, U8(bit_ct - 8))
             IN  IF g.bits = NO_BITS THEN Goto(g.hsd, HSDS_BACKREF_INDEX_MSB)
                 ELSE Goto([g.hsd EXCEPT !.output_index = U16(g.bits * 256)],
                           HSDS_BACKREF_INDEX_LSB)

\* dst_backref_index_lsb keeping the field as read, without hsd.output_index++
dst_backref_index_lsb_raw(hsd) ==
    LET bit_ct == IF hsd.window_sz2 > 8 THEN 8 ELSE hsd.window_sz2
        g == get_bits(hsd, bit_ct)
    IN  IF g.bits = NO_BITS THEN Goto(g.hsd, HSDS_BACKREF_INDEX_LSB)
        ELSE Goto([g.hsd EXCEPT !.output_index = BitOr(g.hsd.output_index, g.bits),
                                !.output_count = 0],
                  IF hsd.lookahead_sz2 > 8 THEN HSDS_BACKREF_COUNT_MSB
                  ELSE HSDS_BACKREF_COUNT_LSB)

dst_backref_index_lsb(hsd) ==
    LET bit_ct == IF hsd.window_sz2 > 8 THEN 8 ELSE hsd.window_sz2
        g == get_bits(hsd, bit_ct)
    IN  IF g.bits = NO_BITS THEN Goto(g.hsd, HSDS_BACKREF_INDEX_LSB)
        ELSE Goto([g.hsd EXCEPT !.output_index = U16(BitOr(g.hsd.output_index, g.bits) + 1),
                                !.output_count = 0],
                  IF hsd.lookahead_sz2 > 8 THEN HSDS_BACKREF_COUNT_MSB
                  ELSE HSDS_BACKREF_COUNT_LSB)

dst_backref_count_msb(hsd) ==
    LET br_bit_ct == hsd.lookahead_sz2
    IN  IF br_bit_ct <= 8 THEN Crash(hsd, FaultFatal)
        ELSE LET g == get_bits(hsd, U8(br_bit_ct - 8))
             IN  IF g.bits = NO_BITS THEN Goto(g.hsd, HSDS_BACKREF_COUNT_MSB)
                 ELSE Goto([g.hsd EXCEPT !.output_count = U16(g.bits * 256)],
                           HSDS_BACKREF_COUNT_LSB)

dst_backref_count_lsb(hsd) ==
    LET br_bit_ct == IF hsd.lookahead_sz2 > 8 THEN 8 ELSE hsd.lookahead_sz2
        g == get_bits(hsd, br_bit_ct)
    IN  IF g.bits = NO_BITS THEN Goto(g.hsd, HSDS_BACKREF_COUNT_LSB)
        ELSE Goto([g.hsd EXCEPT !.output_count = U16(BitOr(g.hsd.output_count, g.bits) + 1)],
                  HSDS_YIELD_BACKREF)

\* the body of the copy loop reading every byte from where the first one is
\* read, the read position not following head_index
yield_backref_body_frozen(st, neg_offset, mask) ==
    LET hsd == st.hsd
        c == hsd.decbuf[BitAnd(U16(hsd.head_index - U16(neg_offset + st.i)), mask)]
        p == push_byte(hsd, c)
    IN  [hsd |-> [p EXCEPT !.decbuf = [@ EXCEPT ![BitAnd(hsd.head_index, mask)] = c],
                           !.head_index = U16(hsd.head_index + 1)],
         i |-> U16(st.i + 1)]

\* the body of the copy loop of dst_yield_backref, and its i++
yield_backref_body(st, neg_offset, mask) ==
    LET hsd == st.hsd
        c == hsd.decbuf[BitAnd(U16(hsd.head_index - neg_offset), mask)]
        p == push_byte(hsd, c)
    IN  [hsd |-> [p EXCEPT !.decbuf = [@ EXCEPT ![BitAnd(hsd.head_index, mask)] = c],
                           !.head_index = U16(hsd.head_index + 1)],
         i |-> U16(st.i + 1)]

RECURSIVE yield_backref_run(_, _, _, _, _)
\* the copy loop, for at most 2^k iterations
yield_backref_run(st, count, neg_offset, mask, k) ==
    IF ~ (st.i < count) THEN st
    ELSE IF k = 0 THEN yield_backref_body(st, neg_offset, mask)
    ELSE yield_backref_run(yield_backref_run(st, count, neg_offset, mask, k - 1),
                           count, neg_offset, mask, k - 1)

RECURSIVE yield_backref_from(_, _, _, _, _)
\* the copy loop, until it ends
yield_backref_from(st, count, neg_offset, mask, k) ==
    LET r == yield_backref_run(st, count, neg_offset, mask, k)
    IN  IF ~ (r.i < count) THEN r
        ELSE yield_backref_from(r, count, neg_offset, mask, k + 1)

\* the copy loop of dst_yield_backref: for i := uint16(0); i < count; i++
yield_backref_loop(hsd, i, count, neg_offset, mask) ==
    yield_backref_from([hsd |-> hsd, i |-> i], count, neg_offset, mask, 0).hsd

dst_yield_backref(hsd) ==
    LET count == hsd.output_count
        mask == window_mask(hsd)
        neg_offset == hsd.output_index
    IN  IF neg_offset > U16(mask + 1) THEN Crash(hsd, FaultFatal)
        ELSE IF count > U16(Pow2(hsd.lookahead_sz2)) THEN Crash(hsd, FaultFatal)
        ELSE LET y == yield_backref_loop(hsd, 0, count, neg_offset, mask)
                 left == U16(y.output_count - count)
             IN  Goto([y EXCEPT !.output_count = left],
                      IF left = 0 THEN HSDS_TAG_BIT ELSE HSDS_YIELD_BACKREF)

\* decoder_poll returning after one state function, whether or not it advanced
decoder_poll_step_once(hsd) ==
    LET in_state == hsd.state
        go(h) == [hsd |-> h, returned |-> TRUE, result |-> HSDR_POLL_EMPTY]
    IN  IF in_state = HSDS_TAG_BIT THEN go(dst_tag_bit(hsd))
        ELSE IF in_state = HSDS_YIELD_LITERAL THEN go(dst_yield_literal(hsd))
        ELSE IF in_state = HSDS_BACKREF_INDEX_MSB THEN go(dst_backref_index_msb(hsd))
        ELSE IF in_state = HSDS_BACKREF_INDEX_LSB THEN go(dst_backref_index_lsb(hsd))
        ELSE IF in_state = HSDS_BACKREF_COUNT_MSB THEN go(dst_backref_count_msb(hsd))
        ELSE IF in_state = HSDS_BACKREF_COUNT_LSB THEN go(dst_backref_count_lsb(hsd))
        ELSE IF in_state = HSDS_YIELD_BACKREF THEN go(dst_yield_backref(hsd))
        ELSE [hsd |-> hsd, returned |-> TRUE, result |-> HSDR_POLL_ERROR_UNKNOWN]

\* one iteration of the loop of decoder_poll: the decoder after it, whether the
\* call returned, and the status it returned
decoder_poll_step(hsd) ==
    LET in_state == hsd.state
        go(h) == [hsd |-> h, returned |-> h.state = in_state,
                  result |-> IF h.state = in_state THEN HSDR_POLL_EMPTY ELSE HSDR_POLL_MORE]
    IN  IF in_state = HSDS_TAG_BIT THEN go(dst_tag_bit(hsd))
        ELSE IF in_state = HSDS_YIELD_LITERAL THEN go(dst_yield_literal(hsd))
        ELSE IF in_state = HSDS_BACKREF_INDEX_MSB THEN go(dst_backref_index_msb(hsd))
        ELSE IF in_state = HSDS_BACKREF_INDEX_LSB THEN go(dst_backref_index_lsb(hsd))
        ELSE IF in_state = HSDS_BACKREF_COUNT_MSB THEN go(dst_backref_count_msb(hsd))
        ELSE IF in_state = HSDS_BACKREF_COUNT_LSB THEN go(dst_backref_count_lsb(hsd))
        ELSE IF in_state = HSDS_YIELD_BACKREF THEN go(dst_yield_backref(hsd))
        ELSE [hsd |-> hsd, returned |-> TRUE, result |-> HSDR_POLL_ERROR_UNKNOWN]

RECURSIVE decoder_poll_run(_, _)
\* the loop of decoder_poll, for at most 2^k iterations
decoder_poll_run(st, k) ==
    IF st.returned \/ st.hsd.fault # NoFault THEN st
    ELSE IF k = 0 THEN decoder_poll_step(st.hsd)
    ELSE decoder_poll_run(decoder_poll_run(st, k - 1), k - 1)

RECURSIVE decoder_poll_from(_, _)
\* the loop of decoder_poll, until it ends
decoder_poll_from(st, k) ==
    LET r == decoder_poll_run(st, k)
    IN  IF r.returned \/ r.hsd.fault # NoFault THEN r ELSE decoder_poll_from(r, k + 1)

\* decoder_poll, run until it returns or the process dies
decoder_poll(hsd) ==
    decoder_poll_from([hsd |-> hsd, returned |-> FALSE, result |-> HSDR_POLL_MORE], 0)

\* decoder_finish looking at the state alone
decoder_finish_by_state(hsd) ==
    [hsd |-> hsd,
     result |-> IF hsd.state = HSDS_YIELD_BACKREF THEN HSDR_FINISH_MORE
                ELSE HSDR_FINISH_DONE]

\* decoder_finish: the decoder after the call and the status returned
decoder_finish(hsd) ==
    [hsd |-> hsd,
     result |-> IF hsd.state \in {HSDS_TAG_BIT, HSDS_BACKREF_INDEX_LSB,
                                  HSDS_BACKREF_INDEX_MSB, HSDS_BACKREF_COUNT_LSB,
                                  HSDS_BACKREF_COUNT_MSB, HSDS_YIELD_LITERAL}
                THEN IF hsd.input_size = 0 THEN HSDR_FINISH_DONE ELSE HSDR_FINISH_MORE
                ELSE HSDR_FINISH_MORE]

RECURSIVE Decompress_loop(_, _, _)
\* the loop of Decompress: the decoder at the end, and whether Decompress returned
Decompress_loop(hsd, data, inlen) ==
    LET k == decoder_sink(hsd, SliceFrom(data, inlen))
        n == inlen + k.consumed
        p == decoder_poll(k.hsd)
        f == decoder_finish(p.hsd)
    IN  IF p.hsd.fault # NoFault THEN [hsd |-> p.hsd, returned |-> FALSE]
        ELSE IF n = Len(data)
             THEN IF f.result = HSDR_FINISH_DONE THEN [hsd |-> f.hsd, returned |-> TRUE]
                  ELSE Decompress_loop(f.hsd, data, n)
             ELSE Decompress_loop(p.hsd, data, n)

\* Decompress(window, lookahead, data): the bytes returned are hsd.outbuf
Decompress(window, lookahead, data) ==
    Decompress_loop(decoder_alloc(window, lookahead), data, 0)


(***************************************************************************)
(* The callers.                                                            *)
(*   facade   Compress(w, l, data), then Decompress of what it returned    *)
(*   encoder  a host making sink / poll / finish calls on an encoder, in   *)
(*            any order, offering its bytes in chunks of any size          *)
(*   decoder  the same on a decoder, with any byte stream                  *)
(***************************************************************************)
VARIABLES
    hse,      \* the encoder
    hsd,      \* the decoder
    mode,     \* "facade", "encoder" or "decoder"
    data,     \* the bytes the caller holds
    inlen,    \* how many of them the codec has accepted
    pc,       \* facade: the call Compress or Decompress makes next, "returned" at the
              \* end; host: "host" between calls, "poll" inside a poll; "crashed" once
              \* the process died
    ret,      \* the last call that returned: [op, result, consumed]
    strict,   \* the host has polled after every sink so far
    chunked   \* the host has stopped a sink short of what it holds and the codec
              \* had room for (a one-shot caller never does)

vars == <<hse, hsd, mode, data, inlen, pc, ret, strict, chunked>>

WindowBits == HEATSHRINK_MIN_WINDOW_BITS .. MaxWindowBits

Params == {p \in WindowBits \X (HEATSHRINK_MIN_LOOKAHEAD_BITS .. MaxWindowBits) :
              ValidParams(p[1], p[2])}

\* the first n bytes of seed seed seed ...
Pattern(seed, n) == [i \in 1 .. n |-> seed[((i - 1) % Len(seed)) + 1]]

\* "HELLO WORLD THINKS WORLD GREAT", the input of the demo program
Hello == <<72, 69, 76, 76, 79, 32, 87, 79, 82, 76, 68, 32, 84, 72, 73, 78, 75, 83, 32,
           87, 79, 82, 76, 68, 32, 71, 82, 69, 65, 84>>

Seeds == {<<0>>, <<65>>, <<65, 66>>, <<0, 65>>, <<65, 65, 66>>, <<65, 66, 67>>,
          <<65, 66, 65, 67, 65, 66, 68>>, <<65, 0, 0, 0, 65, 66, 66, 66, 66, 0>>, Hello}

\* the inputs of an encoder with window_sz2 = w
Inputs(w) == {Pattern(seed, n) : seed \in Seeds, n \in 0 .. (Pow2(w) + MaxTail)}

\* what a host of an encoder holds: it may finish before it has fed it all
HostInputs(w) == {Pattern(seed, Pow2(w) + MaxTail) : seed \in Seeds}

\* bytes of the streams fed to the decoder: back-references near and far, short
\* and long, the start of a literal, and a run of ones
StreamBytes == {0, 7, 127, 160, 255}

RECURSIVE SeqsUpTo(_, _)
\* the sequences over S of length at most n
SeqsUpTo(S, n) ==
    IF n = 0 THEN {<< >>}
    ELSE LET shorter == SeqsUpTo(S, n - 1)
         IN  shorter \cup {Append(q, b) : q \in {t \in shorter : Len(t) = n - 1}, b \in S}

\* what a host of a decoder holds: it may stop before it has fed it all
Streams == {t \in SeqsUpTo(StreamBytes, MaxStream) : Len(t) = MaxStream}

NoCall == [op |-> "none", result |-> 0, offered |-> 0, consumed |-> 0]

\* the chunk sizes a host may offer when it holds n more bytes
Offers(n) == (0 .. Min(MaxChunk, n)) \cup {n}

InitFacade ==
    \E p \in Params :
        /\ mode = "facade"
        /\ pc = "Compress:sink"
        /\ data \in Inputs(p[1])
        /\ hse = encoder_alloc(p[1], p[2])
        /\ hsd = decoder_alloc(p[1], p[2])
        /\ inlen = 0
        /\ ret = NoCall
        /\ strict = TRUE
        /\ chunked = FALSE

InitEncoder ==
    \E p \in Params :
        /\ mode = "encoder"
        /\ pc = "host"
        /\ data \in HostInputs(p[1])
        /\ hse = encoder_alloc(p[1], p[2])
        /\ hsd = decoder_alloc(p[1], p[2])
        /\ inlen = 0
        /\ ret = NoCall
        /\ strict = TRUE
        /\ chunked = FALSE

InitDecoder ==
    \E p \in Params :
        /\ mode = "decoder"
        /\ pc = "host"
        /\ data \in Streams
        /\ hse = encoder_alloc(p[1], p[2])
        /\ hsd = decoder_alloc(p[1], p[2])
        /\ inlen = 0
        /\ ret = NoCall
        /\ strict = TRUE
        /\ chunked = FALSE

\* a host that has sunk all but k <= MaxTail of the bytes the input buffer of a
\* decoder takes, and has not polled yet
InitFull ==
    \E p \in Params, seed \in Seeds, k \in 0 .. MaxTail :
        /\ mode = "decoder"
        /\ pc = "host"
        /\ data = Pattern(seed, INBUF_SIZE + MaxTail)
        /\ hse = encoder_alloc(p[1], p[2])
        /\ hsd = decoder_sink(decoder_alloc(p[1], p[2]), SliceTo(data, INBUF_SIZE - k)).hsd
        /\ inlen = INBUF_SIZE - k
        /\ ret = NoCall
        /\ strict = TRUE
        /\ chunked = FALSE

\* a stream of back-references of count 8 and offset 1, one per byte, so long
\* that head_index, a uint16, is one back-reference short of wrapping to 0
LongStream == Pattern(<<7>>, (Pow2(16) \div Pow2(HEATSHRINK_MIN_LOOKAHEAD_BITS)) - 1)

\* the decoder that was fed LongStream and polled until the poll returned
LongRun ==
    decoder_poll(decoder_sink(decoder_alloc(HEATSHRINK_MIN_WINDOW_BITS,
                                            HEATSHRINK_MIN_LOOKAHEAD_BITS),
                              LongStream).hsd).hsd

\* what follows LongStream: a literal and back-references that take head_index
\* past 65535
LongTails == {<<160, 7, 255>>, <<255, 160, 7>>, <<7, 160, 127>>}

\* a host that has decoded LongStream and holds a few bytes more
InitLong ==
    \E tail \in LongTails :
        /\ mode = "decoder"
        /\ pc = "host"
        /\ data = LongStream \o tail
        /\ hse = encoder_alloc(HEATSHRINK_MIN_WINDOW_BITS, HEATSHRINK_MIN_LOOKAHEAD_BITS)
        /\ hsd = LongRun
        /\ inlen = Len(LongStream)
        /\ ret = NoCall
        /\ strict = TRUE
        /\ chunked = FALSE

\* parameters whose back-reference fields are read in two parts: the offset
\* alone, and both the offset and the count
TwoPartParams == {<<9, 8>>, <<10, 9>>}

\* streams for them: the smallest and the largest fields, and mixed ones
TwoPartStreams == {<<0, 0, 0>>, <<127, 255, 255>>, <<0, 127, 255>>, <<64, 7, 160>>,
                   <<255, 0, 7>>}

\* a host of a decoder whose fields are wider than a byte
InitTwoPart ==
    \E p \in TwoPartParams :
        /\ mode = "decoder"
        /\ pc = "host"
        /\ data \in TwoPartStreams
        /\ hse = encoder_alloc(HEATSHRINK_MIN_WINDOW_BITS, HEATSHRINK_MIN_LOOKAHEAD_BITS)
        /\ hsd = decoder_alloc(p[1], p[2])
        /\ inlen = 0
        /\ ret = NoCall
        /\ strict = TRUE
        /\ chunked = FALSE

\* the parameters of the demo program, Compress(8, 3, in), besides the small ones
DemoParams == Params \cup {<<8, 3>>}

\* the one-shot calls on an input of one byte
InitByte ==
    \E p \in DemoParams, b \in 0 .. 255 :
        /\ mode = "facade"
        /\ pc = "Compress:sink"
        /\ data = <<b>>
        /\ hse = encoder_alloc(p[1], p[2])
        /\ hsd = decoder_alloc(p[1], p[2])
        /\ inlen = 0
        /\ ret = NoCall
        /\ strict = TRUE
        /\ chunked = FALSE

\* a host that has sunk one full window into an encoder of the widest window
InitWide ==
    \E seed \in Seeds :
        /\ mode = "encoder"
        /\ pc = "host"
        /\ data = Pattern(seed, Pow2(HEATSHRINK_MAX_WINDOW_BITS))
        /\ hse = encoder_sink(encoder_alloc(HEATSHRINK_MAX_WINDOW_BITS,
                                            HEATSHRINK_MIN_LOOKAHEAD_BITS), data).hse
        /\ hsd = decoder_alloc(HEATSHRINK_MIN_WINDOW_BITS, HEATSHRINK_MIN_LOOKAHEAD_BITS)
        /\ inlen = Len(data)
        /\ ret = NoCall
        /\ strict = TRUE
        /\ chunked = FALSE

\* Compress, line 69-70: _, tmp := encoder_sink(hse, data[inlen:]); inlen += int(tmp)
CompressSink ==
    /\ mode = "facade"
    /\ pc = "Compress:sink"
    /\ LET r == encoder_sink(hse, SliceFrom(data, inlen))
       IN  /\ hse' = r.hse
           /\ inlen' = inlen + r.consumed
           /\ ret' = [op |-> "sink", result |-> r.result,
                      offered |-> Len(data) - inlen, consumed |-> r.consumed]
           /\ pc' = IF r.hse.fault # NoFault THEN "crashed" ELSE "Compress:poll"
    /\ UNCHANGED <<hsd, mode, data, strict, chunked>>

\* Compress, line 71-72: encoder_poll(hse), one iteration of its loop at a time,
\* and the test inlen == size once it returned
CompressPoll ==
    /\ mode = "facade"
    /\ pc = "Compress:poll"
    /\ LET s == encoder_poll_step(hse)
       IN  /\ hse' = s.hse
           /\ pc' = IF s.hse.fault # NoFault THEN "crashed"
                    ELSE IF ~ s.returned THEN "Compress:poll"
                    ELSE IF inlen = Len(data) THEN "Compress:finish"
                    ELSE "Compress:sink"
           /\ ret' = IF s.returned
                     THEN [op |-> "poll", result |-> s.result, offered |-> 0, consumed |-> 0]
                     ELSE [op |-> "polling", result |-> 0, offered |-> 0, consumed |-> 0]
    /\ UNCHANGED <<hsd, mode, data, inlen, strict, chunked>>

\* Compress, line 73-78: encoder_finish(hse); on FINISH_DONE Compress returns
\* hse.outbuf and the caller hands it to Decompress
CompressFinish ==
    /\ mode = "facade"
    /\ pc = "Compress:finish"
    /\ LET r == encoder_finish(hse)
       IN  /\ hse' = r.hse
           /\ ret' = [op |-> "finish", result |-> r.result, offered |-> 0, consumed |-> 0]
           /\ pc' = IF r.result = HSER_FINISH_DONE THEN "Decompress:sink"
                    ELSE "Compress:sink"
           /\ inlen' = IF r.result = HSER_FINISH_DONE THEN 0 ELSE inlen
    /\ UNCHANGED <<hsd, mode, data, strict, chunked>>

\* Decompress, line 60-61, on the bytes Compress returned
DecompressSink ==
    /\ mode = "facade"
    /\ pc = "Decompress:sink"
    /\ LET r == decoder_sink(hsd, SliceFrom(hse.outbuf, inlen))
       IN  /\ hsd' = r.hsd
           /\ inlen' = inlen + r.consumed
           /\ ret' = [op |-> "sink", result |-> r.result,
                      offered |-> Len(hse.outbuf) - inlen, consumed |-> r.consumed]
    /\ pc' = "Decompress:poll"
    /\ UNCHANGED <<hse, mode, data, strict, chunked>>

\* Decompress, line 62-63: decoder_poll(hsd), one iteration of its loop at a time
DecompressPoll ==
    /\ mode = "facade"
    /\ pc = "Decompress:poll"
    /\ LET s == decoder_poll_step(hsd)
       IN  /\ hsd' = s.hsd
           /\ pc' = IF s.hsd.fault # NoFault THEN "crashed"
                    ELSE IF ~ s.returned THEN "Decompress:poll"
                    ELSE IF inlen = Len(hse.outbuf) THEN "Decompress:finish"
                    ELSE "Decompress:sink"
           /\ ret' = IF s.hsd.fault = NoFault /\ s.returned
                     THEN [op |-> "poll", result |-> s.result, offered |-> 0, consumed |-> 0]
                     ELSE [op |-> "polling", result |-> 0, offered |-> 0, consumed |-> 0]
    /\ UNCHANGED <<hse, mode, data, inlen, strict, chunked>>

\* Decompress, line 64-69: decoder_finish(hsd); on FINISH_DONE Decompress returns
\* hsd.outbuf
DecompressFinish ==
    /\ mode = "facade"
    /\ pc = "Decompress:finish"
    /\ LET r == decoder_finish(hsd)
       IN  /\ hsd' = r.hsd
           /\ ret' = [op |-> "finish", result |-> r.result, offered |-> 0, consumed |-> 0]
           /\ pc' = IF r.result = HSDR_FINISH_DONE THEN "returned" ELSE "Decompress:sink"
    /\ UNCHANGED <<hse, mode, data, inlen, strict, chunked>>

\* the host calls encoder_sink with the next n bytes it holds
EncoderSink ==
    /\ mode = "encoder"
    /\ pc = "host"
    /\ \E n \in Offers(Len(data) - inlen) :
          LET r == encoder_sink(hse, SubSeq(data, inlen + 1, inlen + n))
          IN  /\ hse' = r.hse
              /\ inlen' = inlen + r.consumed
              /\ ret' = [op |-> "sink", result |-> r.result,
                         offered |-> n, consumed |-> r.consumed]
              /\ pc' = IF r.hse.fault # NoFault THEN "crashed" ELSE "host"
              /\ chunked' = (chunked \/ (r.consumed = n /\ n < Len(data) - inlen
                                            /\ r.hse.state = HSES_NOT_FULL))
    /\ strict' = (strict /\ ret.op # "sink")
    /\ UNCHANGED <<hsd, mode, data>>

\* the host calls encoder_poll, or the call it made runs one more iteration
EncoderPoll ==
    /\ mode = "encoder"
    /\ pc \in {"host", "poll"}
    /\ LET s == encoder_poll_step(hse)
       IN  /\ hse' = s.hse
           /\ pc' = IF s.hse.fault # NoFault THEN "crashed"
                    ELSE IF s.returned THEN "host" ELSE "poll"
           /\ ret' = IF s.returned
                     THEN [op |-> "poll", result |-> s.result, offered |-> 0, consumed |-> 0]
                     ELSE [op |-> "polling", result |-> 0, offered |-> 0, consumed |-> 0]
    /\ UNCHANGED <<hsd, mode, data, inlen, strict, chunked>>

\* the host calls encoder_finish
EncoderFinish ==
    /\ mode = "encoder"
    /\ pc = "host"
    /\ LET r == encoder_finish(hse)
       IN  /\ hse' = r.hse
           /\ ret' = [op |-> "finish", result |-> r.result, offered |-> 0, consumed |-> 0]
    /\ strict' = (strict /\ ret.op # "sink")
    /\ UNCHANGED <<hsd, mode, data, inlen, pc, chunked>>

\* the host calls decoder_sink with the next n bytes it holds
DecoderSink ==
    /\ mode = "decoder"
    /\ pc = "host"
    /\ \E n \in Offers(Len(data) - inlen) :
          LET r == decoder_sink(hsd, SubSeq(data, inlen + 1, inlen + n))
          IN  /\ hsd' = r.hsd
              /\ inlen' = inlen + r.consumed
              /\ ret' = [op |-> "sink", result |-> r.result,
                         offered |-> n, consumed |-> r.consumed]
              /\ chunked' = (chunked \/ (r.consumed = n /\ n < Len(data) - inlen))
    /\ strict' = (strict /\ ret.op # "sink")
    /\ UNCHANGED <<hse, mode, data, pc>>

\* the host calls decoder_poll, or the call it made runs one more iteration
DecoderPoll ==
    /\ mode = "decoder"
    /\ pc \in {"host", "poll"}
    /\ LET s == decoder_poll_step(hsd)
       IN  /\ hsd' = s.hsd
           /\ pc' = IF s.hsd.fault # NoFault THEN "crashed"
                    ELSE IF s.returned THEN "host" ELSE "poll"
           /\ ret' = IF s.hsd.fault = NoFault /\ s.returned
                     THEN [op |-> "poll", result |-> s.result, offered |-> 0, consumed |-> 0]
                     ELSE [op |-> "polling", result |-> 0, offered |-> 0, consumed |-> 0]
    /\ UNCHANGED <<hse, mode, data, inlen, strict, chunked>>

\* the host calls decoder_finish
DecoderFinish ==
    /\ mode = "decoder"
    /\ pc = "host"
    /\ LET r == decoder_finish(hsd)
       IN  /\ hsd' = r.hsd
           /\ ret' = [op |-> "finish", result |-> r.result, offered |-> 0, consumed |-> 0]
    /\ strict' = (strict /\ ret.op # "sink")
    /\ UNCHANGED <<hse, mode, data, inlen, pc, chunked>>

NextFacade ==
    \/ CompressSink
    \/ CompressPoll
    \/ CompressFinish
    \/ DecompressSink
    \/ DecompressPoll
    \/ DecompressFinish

NextEncoder == EncoderSink \/ EncoderPoll \/ EncoderFinish

NextDecoder == DecoderSink \/ DecoderPoll \/ DecoderFinish

\* the one-shot calls of the demo program
Spec == InitFacade /\ [][NextFacade]_vars

\* the one-shot calls on every input of one byte
SpecByte == InitByte /\ [][NextFacade]_vars

\* a host driving an encoder
SpecEnc == InitEncoder /\ [][NextEncoder]_vars

\* a host driving a decoder
SpecDec == InitDecoder /\ [][NextDecoder]_vars

\* the decoder host, on short streams and at the end of a long one
SpecLong == (InitDecoder \/ InitLong) /\ [][NextDecoder]_vars

\* the decoder host, with fields of every width
SpecTwoPart == (InitDecoder \/ InitTwoPart) /\ [][NextDecoder]_vars

\* the host calls decoder_poll on a decoder that holds a few bytes at most
DecoderPollShort == DecoderPoll /\ hsd.input_size <= MaxStream

\* a host driving a decoder up to a full input buffer; it polls short inputs only
SpecSink == (InitDecoder \/ InitFull)
            /\ [][DecoderSink \/ DecoderPollShort \/ DecoderFinish]_vars

\* the host calls encoder_poll; on the widest window the model follows the call
\* through its FILLED step only
EncoderPollIndex ==
    (hse.window_sz2 <= MaxWindowBits \/ hse.state = HSES_FILLED) /\ EncoderPoll

\* a host driving an encoder of a small window, or of the widest one up to the
\* construction of its index
SpecIndex == (InitEncoder \/ InitWide)
             /\ [][EncoderSink \/ EncoderPollIndex \/ EncoderFinish]_vars

\* a host driving an encoder or a decoder
SpecHost == (InitEncoder \/ InitDecoder) /\ [][NextEncoder \/ NextDecoder]_vars

-----------------------------------------------------------------------------
\* Properties

\* C1: Decompress(w, l, Compress(w, l, s)) terminates and returns exactly s, for
\* every valid (w, l) and every s, the empty string included: the one-shot calls
\* never die, and what Decompress returns is the input of Compress.
C1_RoundTrip ==
    mode = "facade" => /\ pc # "crashed"
                       /\ pc = "returned" => hsd.outbuf = data

\* C2: Compress(w, l, []) emits no output byte and reaches DONE: with nothing to
\* compress the encoder never faults and its output stays empty.
C2_EmptyInput ==
    (mode = "facade" /\ data = << >>) => /\ hse.fault = NoFault
                                         /\ hse.outbuf = << >>

\* C3: once finish() has been called, the poll that follows returns with the
\* encoder in DONE and the finish after it returns FINISH_DONE, whatever was
\* sunk and polled before: a finishing encoder never dies inside poll, a poll
\* that returned left it DONE, and finish on DONE says FINISH_DONE.
C3_FinishLiveness ==
    (mode = "encoder" /\ hse.finishing) =>
        /\ pc # "crashed"
        /\ (pc = "host" /\ ret.op = "poll") => hse.state = HSES_DONE
        /\ (ret.op = "finish" /\ hse.state = HSES_DONE) => ret.result = HSER_FINISH_DONE

\* C6: in every state an encoder reaches by sink, poll and finish calls,
\* input_size <= W and match_scan_index <= input_size.
C6_SizeInvariants ==
    mode = "encoder" => /\ hse.input_size <= get_input_buffer_size(hse)
                        /\ hse.match_scan_index <= hse.input_size

\* C4: a host that sinks s in chunks of its choosing, polls after every sink and
\* then finishes, ends with exactly what Compress makes of s in one piece: the
\* same output bytes, and the same end (DONE, or the same death).
C4_EncoderStreaming ==
    (/\ mode = "encoder"
     /\ strict
     /\ hse.finishing
     /\ pc = "crashed" \/ (pc = "host" /\ hse.state = HSES_DONE)) =>
        LET c == Compress(hse.window_sz2, hse.lookahead_sz2, SliceTo(data, inlen))
        IN  /\ c.hse.outbuf = hse.outbuf
            /\ c.hse.fault = hse.fault
            /\ c.returned = (pc = "host")

\* a host fed more than a window in short chunks, polled after each, and is done
C4_Witness ==
    /\ mode = "encoder"
    /\ strict
    /\ chunked
    /\ pc = "host"
    /\ hse.state = HSES_DONE
    /\ inlen > get_input_buffer_size(hse)
    /\ Len(hse.outbuf) > 2

\* C5: a host that sinks a compressed stream c in chunks of its choosing, down
\* to one byte at a time, and polls, has after each poll the very decoder that
\* one sink of the bytes fed so far and one poll make: the same output, the same
\* state, the same bits pending.
C5_DecoderStreaming ==
    (/\ mode = "decoder"
     /\ pc = "crashed" \/ (pc = "host" /\ ret.op = "poll")) =>
        LET fresh == decoder_alloc(hsd.window_sz2, hsd.lookahead_sz2)
            sunk  == decoder_sink(fresh, SliceTo(data, inlen)).hsd
        IN  hsd = decoder_poll(sunk).hsd

\* a host fed the whole stream in pieces, polling in between, and got output
C5_Witness ==
    /\ mode = "decoder"
    /\ chunked
    /\ strict
    /\ pc = "host"
    /\ ret.op = "poll"
    /\ inlen = Len(data)
    /\ Len(hsd.outbuf) > 1
    /\ hsd.state # HSDS_TAG_BIT

\* C7: encoder_sink after finish(), or in any state but NOT_FULL, returns
\* SINK_MISUSE, consumes nothing and leaves the encoder as it was; in NOT_FULL
\* before finish it returns SINK_OK, consumes min(len(bytes), W - input_size)
\* bytes, which it copies behind those it holds, and is FILLED afterwards
\* exactly when the region is full.
C7_SinkMisuse ==
    [][
    (mode = "encoder" /\ pc = "host" /\ ret'.op = "sink") =>
        IF hse.finishing \/ hse.state # HSES_NOT_FULL
        THEN /\ ret'.result = HSER_SINK_ERROR_MISUSE
             /\ ret'.consumed = 0
             /\ hse' = hse
        ELSE LET W == get_input_buffer_size(hse)
             IN  /\ ret'.result = HSER_SINK_OK
                 /\ ret'.consumed = Min(ret'.offered, W - hse.input_size)
                 /\ hse'.input_size = hse.input_size + ret'.consumed
                 /\ hse'.state = IF hse'.input_size = W THEN HSES_FILLED ELSE HSES_NOT_FULL
                 /\ \A k \in 1 .. ret'.consumed :
                        hse'.buffer[W + hse.input_size + k - 1] = data[inlen + k]
                 /\ hse' = [hse EXCEPT !.buffer = hse'.buffer,
                                       !.input_size = hse'.input_size,
                                       !.state = hse'.state]
    ]_vars

\* a sink of some bytes refused although finish() was never called
C7_Witness ==
    /\ mode = "encoder"
    /\ ret.op = "sink"
    /\ ret.result = HSER_SINK_ERROR_MISUSE
    /\ ret.offered > 0
    /\ ~ hse.finishing
    /\ hse.state # HSES_NOT_FULL

\* C8: every back-reference the encoder emits, that is every entry into
\* YIELD_BR_INDEX, has match_length > (1 + window_bits + lookahead_bits) / 8 in
\* integer division, and so for every valid (w, l) its 1 + w + l bits are
\* strictly fewer than the 9 * match_length bits of the same bytes as literals.
C8_BreakEven ==
    /\ (mode = "encoder" /\ hse.state = HSES_YIELD_BR_INDEX) =>
           LET cost == 1 + hse.window_sz2 + hse.lookahead_sz2
           IN  /\ hse.match_length > cost \div 8
               /\ cost < 9 * hse.match_length
    /\ \A w \in HEATSHRINK_MIN_WINDOW_BITS .. HEATSHRINK_MAX_WINDOW_BITS :
           \A l \in HEATSHRINK_MIN_LOOKAHEAD_BITS .. HEATSHRINK_MAX_WINDOW_BITS :
               ValidParams(w, l) =>
                   \* the shortest length the test lets through; longer ones cost
                   \* the literals more and the back-reference the same
                   LET m == (1 + w + l) \div 8 + 1
                   IN  1 + w + l < 9 * m

\* the encoder is about to emit the shortest back-reference it may
C8_Witness ==
    /\ mode = "encoder"
    /\ hse.state = HSES_YIELD_BR_INDEX
    /\ hse.match_length = (1 + hse.window_sz2 + hse.lookahead_sz2) \div 8 + 1

\* C9: the output of the encoder and the output of the decoder only grow: over
\* every sink, poll and finish call, and every step inside a poll, the output
\* before the step is a prefix of the output after it.
C9_AppendOnly ==
    [][/\ IsPrefix(hse.outbuf, hse'.outbuf)
       /\ IsPrefix(hsd.outbuf, hsd'.outbuf)]_vars

\* a decoder that emitted bytes in more than one poll
C9_Witness ==
    /\ mode = "decoder"
    /\ chunked
    /\ pc = "host"
    /\ ret.op = "poll"
    /\ Len(hsd.outbuf) > 2

\* C10: decoder_finish returns FINISH_DONE exactly when the state is one of
\* TAG_BIT, BACKREF_INDEX_MSB, BACKREF_INDEX_LSB, BACKREF_COUNT_MSB,
\* BACKREF_COUNT_LSB, YIELD_LITERAL and input_size = 0, FINISH_MORE in every
\* other case, YIELD_BACKREF included, and never modifies the decoder: so it is
\* for the decoder of every reachable state, and so it was for the call that
\* just returned.
C10_DecoderFinish ==
    mode = "decoder" =>
        LET r == decoder_finish(hsd)
            done == /\ hsd.state \in {HSDS_TAG_BIT, HSDS_BACKREF_INDEX_MSB,
                                      HSDS_BACKREF_INDEX_LSB, HSDS_BACKREF_COUNT_MSB,
                                      HSDS_BACKREF_COUNT_LSB, HSDS_YIELD_LITERAL}
                    /\ hsd.input_size = 0
        IN  /\ r.hsd = hsd
            /\ r.result = IF done THEN HSDR_FINISH_DONE ELSE HSDR_FINISH_MORE
            /\ hsd.state = HSDS_YIELD_BACKREF => r.result = HSDR_FINISH_MORE
            /\ ret.op = "finish" => ret.result = r.result

\* finish said MORE to a decoder that rests between two symbols with input unread
C10_Witness ==
    /\ mode = "decoder"
    /\ ret.op = "finish"
    /\ ret.result = HSDR_FINISH_MORE
    /\ hsd.state = HSDS_TAG_BIT
    /\ hsd.input_size > 0

\* C11: decoder_sink returns SINK_FULL, consumes nothing and changes nothing
\* exactly when the input buffer is already full; otherwise it returns SINK_OK,
\* consumes min(len(bytes), capacity - input_size) bytes, appends them in order
\* behind the bytes still unread, and leaves state, bit accumulator, window and
\* output as they were.
C11_DecoderSink ==
    [][(mode = "decoder" /\ pc = "host" /\ ret'.op = "sink") =>
          IF hsd.input_size = INBUF_SIZE
          THEN /\ ret'.result = HSDR_SINK_FULL
               /\ ret'.consumed = 0
               /\ hsd' = hsd
          ELSE /\ ret'.result = HSDR_SINK_OK
               /\ ret'.consumed = Min(ret'.offered, INBUF_SIZE - hsd.input_size)
               /\ hsd'.input_size = hsd.input_size + ret'.consumed
               /\ hsd'.inbuf = hsd.inbuf \o SubSeq(data, inlen + 1, inlen + ret'.consumed)
               /\ hsd' = [hsd EXCEPT !.inbuf = hsd'.inbuf, !.input_size = hsd'.input_size]
      ]_vars

\* a sink of some bytes refused by a decoder whose input buffer is full
C11_Witness ==
    /\ mode = "decoder"
    /\ ret.op = "sink"
    /\ ret.result = HSDR_SINK_FULL
    /\ ret.offered > 0
    /\ ret.consumed = 0
    /\ hsd.input_size = INBUF_SIZE

\* C12: for an input of one byte b Compress returns exactly two bytes, the bit
\* '1', the 8 bits of b from the most significant down, and 7 zero bits of
\* padding (0xA0 0x80 for b = 0x41), and Decompress of the two returns [b].
C12_SingleLiteral ==
    (mode = "facade" /\ Len(data) = 1) =>
        LET b == data[1]
            done == pc \in {"Decompress:sink", "Decompress:poll", "Decompress:finish",
                            "returned"}
        IN  /\ pc # "crashed"
            /\ done => hse.outbuf = <<128 + (b \div 2), 128 * (b % 2)>>
            /\ (done /\ b = 65) => hse.outbuf = <<160, 128>>
            /\ pc = "returned" => hsd.outbuf = <<b>>

\* the demo's parameters took [0x41] to 0xA0 0x80 and back
C12_Witness ==
    /\ mode = "facade"
    /\ pc = "returned"
    /\ data = <<65>>
    /\ hse.window_sz2 = 8
    /\ hse.outbuf = <<160, 128>>
    /\ hsd.outbuf = <<65>>

\* C13: Decompress(w, l, []) returns the empty byte string: a decoder that was
\* fed nothing is still fresh after any sink of no bytes, poll and finish, in
\* TAG_BIT with no output, and every finish it is asked says FINISH_DONE.
C13_DecoderEmptyInput ==
    (mode = "decoder" /\ inlen = 0) =>
        LET fresh == decoder_alloc(hsd.window_sz2, hsd.lookahead_sz2)
            d == Decompress(hsd.window_sz2, hsd.lookahead_sz2, << >>)
        IN  /\ pc = "host"
            /\ hsd = fresh
            /\ hsd.state = HSDS_TAG_BIT
            /\ hsd.outbuf = << >>
            /\ decoder_poll(hsd).hsd = fresh
            /\ decoder_poll(hsd).result = HSDR_POLL_EMPTY
            /\ ret.op = "finish" => ret.result = HSDR_FINISH_DONE
            /\ d.returned
            /\ d.hsd.outbuf = << >>

\* a decoder that was fed nothing was polled and then asked to finish
C13_Witness ==
    /\ mode = "decoder"
    /\ inlen = 0
    /\ ret.op = "finish"
    /\ ret.result = HSDR_FINISH_DONE
    /\ hsd.state = HSDS_TAG_BIT
    /\ hsd.outbuf = << >>

\* C14: in SEARCH, with bias = 1 if finishing else L, whenever match_scan_index >
\* input_size - bias as integers (input_size < bias included, as with
\* input_size = 0 while finishing) the step moves to FLUSH_BITS if finishing,
\* else SAVE_BACKLOG, and does nothing else: no search, match_scan_index as it
\* was, no bit emitted.
C14_ScanExhaustion ==
    (mode = "encoder" /\ hse.state = HSES_SEARCH /\ hse.fault = NoFault) =>
        LET bias == IF hse.finishing THEN 1 ELSE get_lookahead_size(hse)
        IN  hse.match_scan_index > hse.input_size - bias =>
                est_step_search(hse) =
                    [hse EXCEPT !.state = IF hse.finishing THEN HSES_FLUSH_BITS
                                          ELSE HSES_SAVE_BACKLOG]

\* C15: after the FILLED step, and for as long as the region is scanned,
\* search_index[i] is for each i < W + input_size the greatest j < i with
\* buffer[j] = buffer[i], or negative when there is none; W + input_size fits
\* 16 bits and every position below it fits a signed 16-bit entry.  (On the
\* widest window the entries of the first MaxTail + 1 input positions are
\* compared.)
C15_IndexConstruction ==
    (/\ mode = "encoder"
     /\ hse.fault = NoFault
     /\ hse.state \in {HSES_SEARCH, HSES_YIELD_TAG_BIT, HSES_YIELD_LITERAL,
                       HSES_YIELD_BR_INDEX, HSES_YIELD_BR_LENGTH}) =>
        LET W == get_input_buffer_size(hse)
            n == W + hse.input_size
            probes == IF hse.window_sz2 <= MaxWindowBits THEN 0 .. (n - 1)
                      ELSE W .. (Min(n - 1, W + MaxTail))
        IN  /\ U16(n) = n
            /\ n > 0 => I16(n - 1) = n - 1
            /\ \A i \in probes :
                   LET earlier == {j \in 0 .. (i - 1) : hse.buffer[j] = hse.buffer[i]}
                   IN  IF earlier = {} THEN hse.search_index[i] < 0
                       ELSE /\ hse.search_index[i] \in earlier
                            /\ \A j \in earlier : j <= hse.search_index[i]

\* C16: with the index of the region built, the search of find_longest_match for
\* buffer[end:end+maxlen] between start and end - 1 ends with the best length
\* equal to the longest common prefix, capped at maxlen, of buffer[end:] with
\* buffer[p:] over the positions start <= p < end holding the byte of
\* buffer[end]; of the positions reaching it the one nearest to end is taken;
\* and the match_pos returned, end - p, lies in 1 .. W.
C16_LongestMatch ==
    (/\ mode = "encoder"
     /\ hse.state = HSES_SEARCH
     /\ hse.fault = NoFault
     /\ hse.match_scan_index < hse.input_size) =>
        LET W == get_input_buffer_size(hse)
            end == get_input_offset(hse) + hse.match_scan_index
            start == end - W
            maxlen == Min(get_lookahead_size(hse), hse.input_size - hse.match_scan_index)
            prefix(p) == CHOOSE k \in 0 .. maxlen :
                             /\ \A t \in 0 .. (k - 1) : hse.buffer[p + t] = hse.buffer[end + t]
                             /\ k < maxlen => hse.buffer[p + k] # hse.buffer[end + k]
            cands == {p \in start .. (end - 1) : hse.buffer[p] = hse.buffer[end]}
            best == CHOOSE k \in 0 .. maxlen :
                        /\ \A p \in cands : prefix(p) <= k
                        /\ k > 0 => \E p \in cands : prefix(p) = k
            nearest == CHOOSE p \in cands :
                           /\ prefix(p) = best
                           /\ \A q \in cands : prefix(q) = best => q <= p
            r == find_longest_match_loop(hse, start, end, maxlen)
            m == find_longest_match(hse, start, end, maxlen)
        IN  /\ ~ r.panic
            /\ r.match_maxlen = best
            /\ r.match_index = IF cands = {} THEN MATCH_NOT_FOUND ELSE nearest
            /\ m.match_pos # MATCH_NOT_FOUND =>
                   /\ m.match_pos = end - nearest
                   /\ m.match_pos \in 1 .. W
                   /\ m.match_length = best

\* a search whose best match is longer than one byte, short of maxlen, and not
\* the candidate nearest to end
C16_Witness ==
    /\ mode = "encoder"
    /\ hse.state = HSES_SEARCH
    /\ hse.fault = NoFault
    /\ hse.match_scan_index < hse.input_size
    /\ LET end == get_input_offset(hse) + hse.match_scan_index
           maxlen == Min(get_lookahead_size(hse), hse.input_size - hse.match_scan_index)
           m == find_longest_match(hse, end - get_input_buffer_size(hse), end, maxlen)
       IN  /\ m.match_length > 1
           /\ m.match_length < maxlen
           /\ \E q \in (end - m.match_pos + 1) .. (end - 1) : hse.buffer[q] = hse.buffer[end]

\* C17: every back-reference the encoder emits has 1 <= match_pos <= W and
\* 1 <= match_length <= min(L, input_size - match_scan_index); the bits written
\* for it are the tag 0, window_bits bits of match_pos - 1 and lookahead_bits
\* bits of match_length - 1, each from the most significant bit down; and once
\* it is written match_scan_index has advanced by match_length.
C17_BackrefWire ==
    (/\ mode \in {"encoder", "facade"}
     /\ hse.fault = NoFault
     /\ hse.state = HSES_YIELD_TAG_BIT
     /\ hse.match_length > 0) =>
        LET W == get_input_buffer_size(hse)
            L == get_lookahead_size(hse)
            e == yield_symbol(hse)
            msb(v, n) == [k \in 1 .. n |-> (v \div Pow2(n - k)) % 2]
        IN  /\ hse.match_pos \in 1 .. W
            /\ hse.match_length \in 1 .. Min(L, hse.input_size - hse.match_scan_index)
            /\ e.fault = NoFault
            /\ e.state = HSES_SEARCH
            /\ OutBits(e) = OutBits(hse) \o <<0>>
                                \o msb(hse.match_pos - 1, hse.window_sz2)
                                \o msb(hse.match_length - 1, hse.lookahead_sz2)
            /\ e.match_scan_index = hse.match_scan_index + hse.match_length

\* C18: the SAVE_BACKLOG step with scan position msi leaves in buffer[0, W) the
\* W bytes that preceded the first unprocessed input byte (zeros where the input
\* had not yet begun) and in buffer[W, W + input_size) the unprocessed bytes, in
\* order; input_size has dropped by msi and is below L, match_scan_index is 0,
\* the state is NOT_FULL, and the output written so far and the bits pending in
\* current_byte are unchanged.
C18_BacklogSave ==
    (/\ mode = "encoder"
     /\ hse.fault = NoFault
     /\ hse.state = HSES_SAVE_BACKLOG) =>
        LET W == get_input_buffer_size(hse)
            L == get_lookahead_size(hse)
            msi == hse.match_scan_index
            e == encoder_poll_step(hse).hse
            done == inlen - e.input_size
            fed(k) == IF k < 1 THEN 0 ELSE data[k]
        IN  /\ e.fault = NoFault
            /\ e.state = HSES_NOT_FULL
            /\ e.match_scan_index = 0
            /\ e.input_size = hse.input_size - msi
            /\ e.input_size \in 0 .. (L - 1)
            /\ \A i \in 0 .. (W - 1) :
                  /\ e.buffer[i] = hse.buffer[msi + i]
                  /\ e.buffer[i] = fed(done - W + 1 + i)
            /\ \A i \in 0 .. (e.input_size - 1) :
                  /\ e.buffer[W + i] = hse.buffer[W + msi + i]
                  /\ e.buffer[W + i] = data[done + 1 + i]
            /\ OutBits(e) = OutBits(hse)
            /\ e.outbuf = hse.outbuf
            /\ e.current_byte = hse.current_byte
            /\ e.bit_index = hse.bit_index
            /\ e.outgoing_bits_count = hse.outgoing_bits_count

\* a backlog is saved with processed bytes to slide out and unprocessed bytes to keep
C18_Witness ==
    /\ mode = "encoder"
    /\ hse.fault = NoFault
    /\ hse.state = HSES_SAVE_BACKLOG
    /\ hse.match_scan_index > 0
    /\ hse.match_scan_index < hse.input_size
    /\ hse.bit_index # 128
    /\ \E i \in 0 .. (get_input_buffer_size(hse) - 1) :
          hse.buffer[hse.match_scan_index + i] # hse.buffer[get_input_buffer_size(hse) + i]

\* C19: in every decoder state the window holds the last W output bytes, the
\* k-th most recent one at (head_index - k) mod W, and 0 where nothing was
\* written yet, also once head_index has wrapped past 65535; and the
\* YIELD_BACKREF step with offset d and count n appends exactly n bytes, each
\* equal to the output byte d positions before it (0 before the first output
\* byte), and returns to TAG_BIT with output_count = 0.
C19_WindowAndCopy ==
    (mode = "decoder") =>
        LET W == Pow2(hsd.window_sz2)
            out == hsd.outbuf
            n == Len(out)
            at(q) == IF q < 1 THEN 0 ELSE out[q]
        IN  /\ hsd.head_index = n % Pow2(16)
            /\ \A k \in 1 .. W : hsd.decbuf[(hsd.head_index - k) % W] = at(n + 1 - k)
            /\ (hsd.fault = NoFault /\ hsd.state = HSDS_YIELD_BACKREF) =>
                  LET e == decoder_poll_step(hsd).hsd
                      d == hsd.output_index
                      c == hsd.output_count
                      after(q) == IF q < 1 THEN 0 ELSE e.outbuf[q]
                  IN  /\ e.fault = NoFault
                      /\ Len(e.outbuf) = n + c
                      /\ SubSeq(e.outbuf, 1, n) = out
                      /\ \A j \in 1 .. c : e.outbuf[n + j] = after(n + j - d)
                      /\ e.state = HSDS_TAG_BIT
                      /\ e.output_count = 0

\* a back-reference longer than its offset is about to be copied from a window
\* that holds a literal
C19_Witness ==
    /\ mode = "decoder"
    /\ hsd.fault = NoFault
    /\ hsd.state = HSDS_YIELD_BACKREF
    /\ hsd.output_count > hsd.output_index
    /\ hsd.output_index > 1
    /\ \E q \in 1 .. Len(hsd.outbuf) : hsd.outbuf[q] # 0
    /\ hsd.decbuf[(hsd.head_index - hsd.output_index) % Pow2(hsd.window_sz2)]
          # hsd.decbuf[(hsd.head_index - 1) % Pow2(hsd.window_sz2)]
    /\ hsd.head_index + hsd.output_count > Pow2(16)

\* C20: whatever bytes the decoder is fed, it enters YIELD_BACKREF only with
\* 1 <= output_index <= W and 1 <= output_count <= L, BACKREF_INDEX_MSB only
\* when window_sz2 > 8 and BACKREF_COUNT_MSB only when lookahead_sz2 > 8, and it
\* never dies in one of its assertions.
C20_BackrefBounds ==
    (mode = "decoder") =>
        /\ hsd.fault = NoFault
        /\ (hsd.state = HSDS_YIELD_BACKREF) =>
              /\ hsd.output_index \in 1 .. Pow2(hsd.window_sz2)
              /\ hsd.output_count \in 1 .. Pow2(hsd.lookahead_sz2)
        /\ (hsd.state = HSDS_BACKREF_INDEX_MSB) => hsd.window_sz2 > 8
        /\ (hsd.state = HSDS_BACKREF_COUNT_MSB) => hsd.lookahead_sz2 > 8

\* a back-reference with the largest offset and the largest count, both read in
\* two parts
C20_Witness ==
    /\ mode = "decoder"
    /\ hsd.fault = NoFault
    /\ hsd.state = HSDS_YIELD_BACKREF
    /\ hsd.window_sz2 > 8
    /\ hsd.lookahead_sz2 > 8
    /\ hsd.output_index = Pow2(hsd.window_sz2)
    /\ hsd.output_count = Pow2(hsd.lookahead_sz2)

\* C21: for every count in 1 .. 8, get_bits either returns the next count bits
\* of the bytes sunk so far, most significant bit first, and consumes exactly
\* those count bits, or returns NO_BITS and leaves the decoder as it was; it
\* returns NO_BITS exactly when fewer than count bits are left in current_byte
\* and the input buffer together.
C21_GetBits ==
    (mode = "decoder" /\ hsd.fault = NoFault) =>
        LET left(h) == (IF h.bit_index = 0 THEN 0
                        ELSE CHOOSE r \in 1 .. 8 : Pow2(r - 1) = h.bit_index)
                       + 8 * (h.input_size - h.input_index)
            pos == 8 * inlen - left(hsd)
            bit(q) == (data[((q - 1) \div 8) + 1] \div Pow2(7 - ((q - 1) % 8))) % 2
            RECURSIVE value(_, _)
            value(q, n) == IF n = 0 THEN 0 ELSE 2 * value(q, n - 1) + bit(q + n)
        IN  /\ hsd.bit_index \in {0} \cup {Pow2(r) : r \in 0 .. 7}
            /\ pos >= 0
            /\ \A count \in 1 .. 8 :
                  LET g == get_bits(hsd, count)
                  IN  IF left(hsd) < count
                      THEN g.bits = NO_BITS /\ g.hsd = hsd
                      ELSE /\ g.bits # NO_BITS
                           /\ g.bits = value(pos, count)
                           /\ g.hsd.fault = NoFault
                           /\ left(g.hsd) = left(hsd) - count
                           /\ g.hsd.state = hsd.state
                           /\ g.hsd.outbuf = hsd.outbuf
                           /\ g.hsd.decbuf = hsd.decbuf
                           /\ g.hsd.head_index = hsd.head_index

\* a literal is due, some of its bits are left in current_byte but not all
\* eight, and the input buffer is empty
C21_Witness ==
    /\ mode = "decoder"
    /\ hsd.fault = NoFault
    /\ hsd.state = HSDS_YIELD_LITERAL
    /\ hsd.input_size = 0
    /\ hsd.bit_index \in 1 .. 64
    /\ hsd.current_byte % (2 * hsd.bit_index) # 0
    /\ get_bits(hsd, 8).bits = NO_BITS
    /\ get_bits(hsd, 1).bits = 1

\* C22: in every encoder state bit_index is one of 0x80, 0x40, ..., 0x01 and
\* current_byte has no bit set at the position of bit_index or below it, so that
\* at bit_index = 0x80 the whole-byte path of push_bits writes what the bit loop
\* would write; the FLUSH_BITS step writes nothing when bit_index = 0x80 and
\* otherwise the one byte current_byte, whose unused low bits are zero, so that
\* the output is ceil(bits written / 8) bytes long.
C22_BitAccumulator ==
    (mode \in {"encoder", "facade"}) =>
        LET pending == CHOOSE k \in 0 .. 7 : Pow2(7 - k) = hse.bit_index
            written == 8 * Len(hse.outbuf) + pending
        IN  /\ hse.bit_index \in {Pow2(k) : k \in 0 .. 7}
            /\ hse.current_byte % (2 * hse.bit_index) = 0
            /\ (hse.bit_index = 128) =>
                  /\ hse.current_byte = 0
                  /\ \A b \in {0, 1, 65, 128, 170, 255} :
                        push_bits(hse, 8, b) = push_bits_loop(hse, 7, b)
            /\ (hse.fault = NoFault /\ hse.state = HSES_FLUSH_BITS) =>
                  LET e == encoder_poll_step(hse).hse
                  IN  /\ e.state = HSES_DONE
                      /\ e.fault = NoFault
                      /\ e.outbuf = IF hse.bit_index = 128 THEN hse.outbuf
                                    ELSE Append(hse.outbuf, hse.current_byte)
                      /\ Len(e.outbuf) = (written + 7) \div 8
                      /\ OutBits(hse) = SubSeq([q \in 1 .. (8 * Len(e.outbuf)) |->
                                                  (e.outbuf[((q - 1) \div 8) + 1]
                                                      \div Pow2(7 - ((q - 1) % 8))) % 2],
                                               1, written)

\* the encoder is about to flush a byte that is partly filled, after it has
\* written whole bytes in the middle of a byte
C22_Witness ==
    /\ mode \in {"encoder", "facade"}
    /\ hse.fault = NoFault
    /\ hse.state = HSES_FLUSH_BITS
    /\ hse.bit_index \in 2 .. 32
    /\ hse.current_byte # 0
    /\ Len(hse.outbuf) > 2

\* C23: whatever the host calls, the encoder is in one of its ten states and
\* moves only NOT_FULL -> FILLED, FILLED -> SEARCH, SEARCH -> YIELD_TAG_BIT,
\* SAVE_BACKLOG or FLUSH_BITS, YIELD_TAG_BIT -> YIELD_LITERAL or YIELD_BR_INDEX,
\* YIELD_LITERAL -> SEARCH, YIELD_BR_INDEX -> YIELD_BR_LENGTH, YIELD_BR_LENGTH ->
\* SEARCH, SAVE_BACKLOG -> NOT_FULL, FLUSH_BITS -> DONE; it enters FLUSH_BITS only
\* when finishing and SAVE_BACKLOG only when not; encoder_poll returns only in
\* NOT_FULL or DONE, and with POLL_EMPTY; and once in DONE no call changes the
\* state or the output.
C23_StateGraph ==
    [][
        (mode \in {"encoder", "facade"}) =>
            /\ hse.state \in HSES_NOT_FULL .. HSES_DONE
            /\ hse'.state \in HSES_NOT_FULL .. HSES_DONE
            /\ (hse'.state # hse.state) => <<hse.state, hse'.state>> \in EncoderEdges
            /\ (hse'.state # hse.state /\ hse'.state = HSES_FLUSH_BITS) => hse'.finishing
            /\ (hse'.state # hse.state /\ hse'.state = HSES_SAVE_BACKLOG) => ~ hse'.finishing
            /\ (ret'.op = "poll") =>
                  /\ ret'.result = HSER_POLL_EMPTY
                  /\ hse'.state \in {HSES_NOT_FULL, HSES_DONE}
                  /\ hse' = hse
            /\ (hse.state = HSES_DONE) =>
                  /\ hse'.state = HSES_DONE
                  /\ hse'.outbuf = hse.outbuf
        ]_vars

\* the encoder is in DONE, has written output, and the host has offered it
\* more bytes since
C23_Witness ==
    /\ mode = "encoder"
    /\ hse.fault = NoFault
    /\ hse.state = HSES_DONE
    /\ Len(hse.outbuf) > 0
    /\ ret.op = "sink"
    /\ ret.offered > 0

\* C24 as stated: whatever bytes the host sinks and whenever it polls, each
\* decoder_poll returns, with POLL_EMPTY, and leaves input_size = 0,
\* input_index = 0, output_count = 0 and a state other than YIELD_BACKREF; so a
\* decoder_sink after it is never refused, a decoder_finish after it returns
\* FINISH_DONE, and Decompress returns.
C24_PollDrainsAll ==
    (mode = "decoder" /\ hsd.fault = NoFault /\ pc = "host") =>
        /\ (ret.op = "poll") =>
              /\ ret.result = HSDR_POLL_EMPTY
              /\ hsd.input_size = 0
              /\ hsd.input_index = 0
              /\ hsd.state # HSDS_YIELD_BACKREF
              /\ hsd.output_count = 0
              /\ decoder_finish(hsd).result = HSDR_FINISH_DONE
              /\ \A n \in 0 .. (Len(data) - inlen) :
                    decoder_sink(hsd, SubSeq(data, inlen + 1, inlen + n)).result
                        = HSDR_SINK_OK
        /\ LET p == decoder_poll(hsd)
               h == p.hsd
           IN  /\ p.returned
               /\ p.result = HSDR_POLL_EMPTY
               /\ h.fault = NoFault
               /\ h.input_size = 0
               /\ h.input_index = 0
               /\ h.state # HSDS_YIELD_BACKREF
               /\ h.output_count = 0
               /\ decoder_finish(h).result = HSDR_FINISH_DONE
        /\ (ret = NoCall) => Decompress(hsd.window_sz2, hsd.lookahead_sz2, data).returned

\* C24, amended: as above, but output_count is 0 on return except in
\* BACKREF_COUNT_LSB with lookahead_sz2 > 8, where it holds the high part of the
\* count that BACKREF_COUNT_MSB has read, a multiple of 256.
C24_PollDrains ==
    (mode = "decoder" /\ hsd.fault = NoFault /\ pc = "host") =>
        /\ (ret.op = "poll") =>
              /\ ret.result = HSDR_POLL_EMPTY
              /\ hsd.input_size = 0
              /\ hsd.input_index = 0
              /\ hsd.state # HSDS_YIELD_BACKREF
              /\ \/ hsd.output_count = 0
                 \/ /\ hsd.state = HSDS_BACKREF_COUNT_LSB
                    /\ hsd.lookahead_sz2 > 8
                    /\ hsd.output_count % 256 = 0
              /\ decoder_finish(hsd).result = HSDR_FINISH_DONE
              /\ \A n \in 0 .. (Len(data) - inlen) :
                    decoder_sink(hsd, SubSeq(data, inlen + 1, inlen + n)).result
                        = HSDR_SINK_OK
        /\ LET p == decoder_poll(hsd)
               h == p.hsd
           IN  /\ p.returned
               /\ p.result = HSDR_POLL_EMPTY
               /\ h.fault = NoFault
               /\ h.input_size = 0
               /\ h.input_index = 0
               /\ h.state # HSDS_YIELD_BACKREF
               /\ \/ h.output_count = 0
                  \/ /\ h.state = HSDS_BACKREF_COUNT_LSB
                     /\ h.lookahead_sz2 > 8
                     /\ h.output_count % 256 = 0
               /\ decoder_finish(h).result = HSDR_FINISH_DONE
        /\ (ret = NoCall) => Decompress(hsd.window_sz2, hsd.lookahead_sz2, data).returned

\* decoder_poll has returned in BACKREF_COUNT_LSB with the high part of a count
\* in output_count, the input having ended inside the count
C24_Witness ==
    /\ mode = "decoder"
    /\ hsd.fault = NoFault
    /\ pc = "host"
    /\ ret.op = "poll"
    /\ hsd.state = HSDS_BACKREF_COUNT_LSB
    /\ hsd.lookahead_sz2 > 8
    /\ hsd.output_count = 256
    /\ hsd.input_size = 0
    /\ inlen < Len(data)

=============================================================================
